---- MODULE Spec2Model ----
(***************************************************************************)
(* Model of the eSIM proxy (server.js, latest revision): the identifier    *)
(* extractor, the label resolver, the destination matcher, the plan        *)
(* normalizer and the three routes /balance, /balance-clean and            *)
(* /plans-by-destination with their outbound calls.                        *)
(*                                                                         *)
(* JavaScript strings that the code inspects character by character are    *)
(* sequences of one-character strings; strings the code only passes on     *)
(* (labels, error names) are TLA+ strings.                                 *)
(***************************************************************************)
EXTENDS Integers, Sequences, FiniteSets, TLC

VARIABLES cfg, reqs, probe

vars == <<cfg, reqs, probe>>

(***************************************************************************)
(* Characters and JavaScript string helpers                                *)
(***************************************************************************)
Digit == {"0", "1", "2", "3", "4", "5", "6", "7", "8", "9"}

UpperSeq == <<"A", "B", "C", "D", "E", "F", "G", "H", "I", "J", "K", "L", "M",
              "N", "O", "P", "Q", "R", "S", "T", "U", "V", "W", "X", "Y", "Z">>

LowerSeq == <<"a", "b", "c", "d", "e", "f", "g", "h", "i", "j", "k", "l", "m",
              "n", "o", "p", "q", "r", "s", "t", "u", "v", "w", "x", "y", "z">>

Upper == {UpperSeq[i] : i \in 1..26}

WhiteSpace == {" ", "\t", "\n"}

Min2(a, b) == IF a < b THEN a ELSE b

\* s.slice(0, n) for a sequence s and an integer n >= 0
Slice(s, n) == SubSeq(s, 1, Min2(n, Len(s)))

\* c.toLowerCase() for one character
LowerChar(c) ==
  IF c \in Upper THEN LowerSeq[CHOOSE i \in 1..26 : UpperSeq[i] = c] ELSE c

\* s.toLowerCase()
ToLowerCase(s) == [i \in 1..Len(s) |-> LowerChar(s[i])]

(***************************************************************************)
(* JavaScript values read from requests and upstream bodies: undefined, a  *)
(* string or a number                                                      *)
(***************************************************************************)
UNDEF == [t |-> "undefined"]

Str(s) == [t |-> "string", s |-> s]

Num(n) == [t |-> "number", n |-> n]

\* Boolean(v): undefined, "" and 0 are falsy
Truthy(v) ==
  \/ v.t = "string" /\ v.s # <<>>
  \/ v.t = "number" /\ v.n # 0

\* x || y
Or(x, y) == IF Truthy(x) THEN x ELSE y

\* x ?? y
Nullish(x, y) == IF x.t # "undefined" THEN x ELSE y

(***************************************************************************)
(* JavaScript numbers: a finite value, NaN or +Infinity.  The finite       *)
(* values of the model are integers.                                       *)
(***************************************************************************)
Fin(n) == [k |-> "fin", n |-> n]

NaN == [k |-> "nan"]

PosInf == [k |-> "inf"]

\* isFinite(x), Number.isFinite(x)
isFinite(x) == x.k = "fin"

DigitSeq == <<"0", "1", "2", "3", "4", "5", "6", "7", "8", "9">>

DigitVal(c) == (CHOOSE i \in 1..10 : DigitSeq[i] = c) - 1

RECURSIVE DigitsValue(_)
\* the value of a non-empty string of decimal digits
DigitsValue(s) ==
  IF Len(s) = 1 THEN DigitVal(s[1])
  ELSE 10 * DigitsValue(SubSeq(s, 1, Len(s) - 1)) + DigitVal(s[Len(s)])

RECURSIVE NatToString(_)
\* String(n) for an integer n >= 0
NatToString(n) ==
  IF n < 10 THEN <<DigitSeq[n + 1]>>
  ELSE NatToString(n \div 10) \o <<DigitSeq[(n % 10) + 1]>>

RECURSIVE TrimLeft(_)
TrimLeft(s) ==
  IF s # <<>> /\ Head(s) \in WhiteSpace THEN TrimLeft(Tail(s)) ELSE s

RECURSIVE TrimRight(_)
TrimRight(s) ==
  IF s # <<>> /\ s[Len(s)] \in WhiteSpace
  THEN TrimRight(SubSeq(s, 1, Len(s) - 1)) ELSE s

\* s.trim()
Trim(s) == TrimRight(TrimLeft(s))

AllDigits(s) == s # <<>> /\ \A i \in 1..Len(s) : s[i] \in Digit

\* Number(s) for a string s made of blanks, an optional sign and decimal
\* digits, or of text that is no numeral (NaN)
StringToNumber(s) ==
  LET t == Trim(s) IN
  IF t = <<>> THEN Fin(0)
  ELSE IF AllDigits(t) THEN Fin(DigitsValue(t))
  ELSE IF Head(t) = "-" /\ AllDigits(Tail(t)) THEN Fin(0 - DigitsValue(Tail(t)))
  ELSE IF Head(t) = "+" /\ AllDigits(Tail(t)) THEN Fin(DigitsValue(Tail(t)))
  ELSE NaN

\* Number(v) for a JavaScript value v: undefined, a number or a string
ToNumber(v) ==
  IF v.t = "number" THEN Fin(v.n)
  ELSE IF v.t = "string" THEN StringToNumber(v.s)
  ELSE NaN

\* String(v) for a JavaScript value v: undefined, a number or a string
JsString(v) ==
  IF v.t = "string" THEN v.s
  ELSE IF v.t = "number"
  THEN (IF v.n < 0 THEN <<"-">> \o NatToString(0 - v.n) ELSE NatToString(v.n))
  ELSE <<"u", "n", "d", "e", "f", "i", "n", "e", "d">>

\* hay.includes(needle)
Includes(hay, needle) ==
  \E i \in 1..(Len(hay) + 1) :
    /\ i + Len(needle) - 1 <= Len(hay)
    /\ SubSeq(hay, i, i + Len(needle) - 1) = needle

\* String(v ?? "")
StringOf(v) == IF v.t = "undefined" THEN <<>> ELSE JsString(v)

(***************************************************************************)
(* Identifier extractor                                                    *)
(***************************************************************************)
\* the quantifier bounds of /\d{15,22}/
RunMin == 15

RunMax == 22

RECURSIVE DigitRunLen(_, _)
\* number of consecutive digits of s starting at position i
DigitRunLen(s, i) ==
  IF i > Len(s) \/ s[i] \notin Digit THEN 0 ELSE 1 + DigitRunLen(s, i + 1)

RECURSIVE DigitMatches(_, _)
\* s.match(/\d{15,22}/g) scanning from position i: leftmost, greedy,
\* non-overlapping matches
DigitMatches(s, i) ==
  IF i > Len(s) THEN <<>>
  ELSE LET n == DigitRunLen(s, i) IN
       IF n >= RunMin
       THEN LET k == Min2(n, RunMax) IN
            <<SubSeq(s, i, i + k - 1)>> \o DigitMatches(s, i + k)
       ELSE DigitMatches(s, i + 1)

\* matches.sort((a, b) => b.length - a.length)[0]: the sort is stable, so
\* the result is the first match of maximal length
extractDigitsLongest(s) ==
  LET matches == DigitMatches(s, 1) IN
  IF matches = <<>> THEN <<>>
  ELSE LET best == CHOOSE i \in 1..Len(matches) :
                     /\ \A j \in 1..Len(matches) : Len(matches[j]) <= Len(matches[i])
                     /\ \A j \in 1..(i - 1) : Len(matches[j]) < Len(matches[i])
       IN matches[best]

\* OnlyDigits that strips nothing
OnlyDigitsKeepAll(s) == s

\* s.replace(/\D+/g, "")
OnlyDigits(s) == SelectSeq(s, LAMBDA c : c \in Digit)

sanitizeIccid(value) ==
  LET onlyDigits == OnlyDigits(StringOf(value)) IN
  extractDigitsLongest(IF Len(onlyDigits) > 0 THEN onlyDigits ELSE StringOf(value))

isIccidLengthOK(iccid, c) == Len(iccid) >= c.minLen /\ Len(iccid) <= c.maxLen

\* safeGet(b, [k, f]) for a body object b: the field f of the nested object
\* b[k], undefined when b[k] is absent
safeGet(b, k, f) == IF b[k].t = "object" THEN b[k][f] ELSE UNDEF

\* Candidates with the body fields pushed before the path parameter, the
\* query parameters and the headers
CandidatesBodyFirst(req) ==
  LET b == req.body IN
  (IF b.t = "string" /\ b.s # <<>> THEN <<Str(b.s)>> ELSE <<>>)
  \o (IF b.t = "object"
      THEN <<b.iccid, b.ICCID, b.value, b.number,
             safeGet(b, "arguments", "iccid"), safeGet(b, "arguments", "ICCID"),
             safeGet(b, "tool_input", "iccid"), safeGet(b, "tool_input", "ICCID"),
             safeGet(b, "payload", "iccid"), safeGet(b, "payload", "ICCID")>>
      ELSE <<>>)
  \o (IF b.t = "array"
      THEN <<UNDEF, UNDEF, UNDEF, UNDEF, UNDEF, UNDEF, UNDEF, UNDEF, UNDEF, UNDEF>>
           \o (IF Len(b.items) > 0 THEN <<b.items[1].iccid, b.items[1].ICCID>> ELSE <<>>)
      ELSE <<>>)
  \o <<req.params, req.query.iccid, req.query.ICCID,
       req.headers.xiccid, req.headers.xiccidnumber>>

\* the candidate list pickIccid builds, in the order it pushes
Candidates(req) ==
  LET b == req.body IN
  <<req.params, req.query.iccid, req.query.ICCID,
    req.headers.xiccid, req.headers.xiccidnumber>>
  \o (IF b.t = "string" /\ b.s # <<>> THEN <<Str(b.s)>> ELSE <<>>)
  \o (IF b.t = "object"
      THEN <<b.iccid, b.ICCID, b.value, b.number,
             safeGet(b, "arguments", "iccid"), safeGet(b, "arguments", "ICCID"),
             safeGet(b, "tool_input", "iccid"), safeGet(b, "tool_input", "ICCID"),
             safeGet(b, "payload", "iccid"), safeGet(b, "payload", "ICCID")>>
      ELSE <<>>)
  \o (IF b.t = "array"
      THEN <<UNDEF, UNDEF, UNDEF, UNDEF, UNDEF, UNDEF, UNDEF, UNDEF, UNDEF, UNDEF>>
           \o (IF Len(b.items) > 0 THEN <<b.items[1].iccid, b.items[1].ICCID>> ELSE <<>>)
      ELSE <<>>)

RECURSIVE JoinSpace(_)
\* list.join(" ") of a list of strings
JoinSpace(list) ==
  IF list = <<>> THEN <<>>
  ELSE IF Len(list) = 1 THEN list[1]
  ELSE list[1] \o <<" ">> \o JoinSpace(Tail(list))

pickIccid(req, c) ==
  LET candidates == Candidates(req)
      cleaned == [i \in 1..Len(candidates) |-> sanitizeIccid(candidates[i])]
      valid == {i \in 1..Len(candidates) :
                  cleaned[i] # <<>> /\ isIccidLengthOK(cleaned[i], c)}
      truthy == SelectSeq(candidates, Truthy)
      joined == JoinSpace([i \in 1..Len(truthy) |-> truthy[i].s])
  IN IF valid # {}
     THEN cleaned[CHOOSE i \in valid : \A j \in valid : i <= j]
     ELSE sanitizeIccid(Str(joined))

(***************************************************************************)
(* Label resolver                                                          *)
(***************************************************************************)
ISO2_COUNTRIES ==
  <<"U", "S">> :> "United States" @@
  <<"G", "B">> :> "United Kingdom" @@
  <<"G", "R">> :> "Greece" @@
  <<"F", "R">> :> "France" @@
  <<"E", "S">> :> "Spain" @@
  <<"I", "T">> :> "Italy" @@
  <<"D", "E">> :> "Germany" @@
  <<"N", "L">> :> "Netherlands" @@
  <<"P", "T">> :> "Portugal" @@
  <<"I", "E">> :> "Ireland" @@
  <<"I", "L">> :> "Israel" @@
  <<"B", "E">> :> "Belgium" @@
  <<"A", "T">> :> "Austria" @@
  <<"C", "H">> :> "Switzerland" @@
  <<"S", "E">> :> "Sweden" @@
  <<"N", "O">> :> "Norway" @@
  <<"D", "K">> :> "Denmark" @@
  <<"F", "I">> :> "Finland" @@
  <<"C", "Z">> :> "Czechia" @@
  <<"P", "L">> :> "Poland" @@
  <<"R", "O">> :> "Romania" @@
  <<"H", "U">> :> "Hungary" @@
  <<"S", "K">> :> "Slovakia" @@
  <<"B", "G">> :> "Bulgaria" @@
  <<"H", "R">> :> "Croatia" @@
  <<"S", "I">> :> "Slovenia" @@
  <<"E", "E">> :> "Estonia" @@
  <<"L", "V">> :> "Latvia" @@
  <<"L", "T">> :> "Lithuania" @@
  <<"M", "X">> :> "Mexico" @@
  <<"R", "U">> :> "Russia"

REGION_CODES ==
  <<"R", "E", "U", "P">> :> "Europe+" @@
  <<"E", "U", "R", "O">> :> "Europe" @@
  <<"A", "P", "A", "C">> :> "Asia Pacific" @@
  <<"L", "A", "T", "A", "M">> :> "Latin America" @@
  <<"M", "E", "N", "A">> :> "Middle East & North Africa" @@
  <<"G", "L", "O", "B", "A", "L">> :> "Global"

NoMatch == <<>>

\* (?:_[Vv]\d+)?$ at position p of s
SuffixOK(s, p) ==
  \/ p = Len(s) + 1
  \/ /\ p + 2 <= Len(s)
     /\ s[p] = "_"
     /\ s[p + 1] \in {"V", "v"}
     /\ \A q \in (p + 2)..Len(s) : s[q] \in Digit

\* /_([A-Z]{lo,hi})(?:_[Vv]\d+)?$/ matches at position i of s with k letters
CodeMatchAt(s, i, k) ==
  /\ i + k <= Len(s)
  /\ s[i] = "_"
  /\ \A j \in 1..k : s[i + j] \in Upper
  /\ SuffixOK(s, i + k + 1)

\* s.match(/_([A-Z]{lo,hi})(?:_[Vv]\d+)?$/): the captured code of the
\* leftmost match, the letters taken greedily; NoMatch when there is none
TrailingCode(s, lo, hi) ==
  LET ms == {m \in (1..Len(s)) \X (lo..hi) : CodeMatchAt(s, m[1], m[2])} IN
  IF ms = {} THEN NoMatch
  ELSE LET m == CHOOSE m \in ms :
                  \A o \in ms : m[1] < o[1] \/ (m[1] = o[1] /\ m[2] >= o[2])
       IN SubSeq(s, m[1] + 1, m[1] + m[2])

\* /(?:^|[^A-Z])([A-Z]{2})(?:[^A-Z]|$)/ matches with its group at position t
DescTokenAt(s, t) ==
  /\ t + 1 <= Len(s)
  /\ s[t] \in Upper
  /\ s[t + 1] \in Upper
  /\ (t = 1 \/ s[t - 1] \notin Upper)
  /\ (t + 2 > Len(s) \/ s[t + 2] \notin Upper)

\* description.match(/(?:^|[^A-Z])([A-Z]{2})(?:[^A-Z]|$)/): the group of the
\* first match only (the pattern has no g flag)
DescIso(s) ==
  LET ts == {t \in 1..Len(s) : DescTokenAt(s, t)} IN
  IF ts = {} THEN NoMatch
  ELSE LET t == CHOOSE t \in ts : \A o \in ts : t <= o IN SubSeq(s, t, t + 1)

Returned(label) == [thrown |-> FALSE, label |-> label]

Thrown == [thrown |-> TRUE, label |-> ""]

\* planName and description are JavaScript values: calling .match on a
\* value that is not a string throws a TypeError
extractRegionOrIso2Label(planName, description) ==
  IF planName.t # "string" THEN Thrown
  ELSE LET regionMatch == TrailingCode(planName.s, 3, 5)
           isoMatch == TrailingCode(planName.s, 2, 2)
       IN IF regionMatch # NoMatch /\ regionMatch \in DOMAIN REGION_CODES
          THEN Returned(REGION_CODES[regionMatch])
          ELSE IF isoMatch # NoMatch /\ isoMatch \in DOMAIN ISO2_COUNTRIES
          THEN Returned(ISO2_COUNTRIES[isoMatch])
          ELSE IF description.t # "string" THEN Thrown
          ELSE LET descIso == DescIso(description.s) IN
               IF descIso # NoMatch /\ descIso \in DOMAIN ISO2_COUNTRIES
               THEN Returned(ISO2_COUNTRIES[descIso])
               ELSE Returned("")

(***************************************************************************)
(* Destination matcher                                                     *)
(***************************************************************************)
RECURSIVE CollapseSpace(_)
\* s.replace(/\s+/g, " ")
CollapseSpace(s) ==
  IF s = <<>> THEN <<>>
  ELSE IF Head(s) \in WhiteSpace
  THEN <<" ">> \o CollapseSpace(TrimLeft(s))
  ELSE <<Head(s)>> \o CollapseSpace(Tail(s))

normalizeDestination(s) == CollapseSpace(ToLowerCase(Trim(s)))

\* Array.prototype.find over the indexes that satisfy the predicate: the
\* first of them, 0 if there is none
Find(hits) == IF hits = {} THEN 0 ELSE CHOOSE i \in hits : \A j \in hits : i <= j

sEurope == <<"e", "u", "r", "o", "p", "e">>

sEu == <<"e", "u">>

sEuPlus == <<"e", "u", "+">>

\* the Set of variants in insertion order
Variants(want) ==
  <<want>>
  \o (IF want = sEurope THEN <<sEuPlus, sEu>> ELSE <<>>)
  \o (IF want = sEu THEN <<sEuPlus, sEurope>> ELSE <<>>)
  \o (IF want = sEuPlus THEN <<sEurope, sEu>> ELSE <<>>)

\* pickCoverageRecord that tries the substring of a country name before
\* the Europe synonyms
pickCoverageRecordSubstringFirst(dest, coverageList) ==
  LET want == normalizeDestination(dest)
      idx == 1..Len(coverageList)
      country(i) == normalizeDestination(coverageList[i].country)
      exact == Find({i \in idx : country(i) = want})
      variants == Variants(want)
      byVariant == [k \in 1..Len(variants) |->
                      Find({i \in idx : country(i) = variants[k]})]
      found == {k \in 1..Len(variants) : byVariant[k] # 0}
      substring == Find({i \in idx : Includes(country(i), want)})
      iso == Find({i \in idx : normalizeDestination(coverageList[i].iso2) = want})
  IN IF exact # 0 THEN exact
     ELSE IF substring # 0 THEN substring
     ELSE IF found # {} THEN byVariant[Find(found)]
     ELSE iso

\* the index in coverageList of the record pickCoverageRecord returns,
\* 0 when it returns null
pickCoverageRecord(dest, coverageList) ==
  LET want == normalizeDestination(dest)
      idx == 1..Len(coverageList)
      country(i) == normalizeDestination(coverageList[i].country)
      exact == Find({i \in idx : country(i) = want})
      variants == Variants(want)
      byVariant == [k \in 1..Len(variants) |->
                      Find({i \in idx : country(i) = variants[k]})]
      found == {k \in 1..Len(variants) : byVariant[k] # 0}
      substring == Find({i \in idx : Includes(country(i), want)})
      iso == Find({i \in idx : normalizeDestination(coverageList[i].iso2) = want})
  IN IF exact # 0 THEN exact
     ELSE IF found # {} THEN byVariant[Find(found)]
     ELSE IF substring # 0 THEN substring
     ELSE iso

(***************************************************************************)
(* Plan normalizer                                                         *)
(***************************************************************************)
sUnlimited == <<"u", "n", "l", "i", "m", "i", "t", "e", "d">>

sUnl == <<"u", "n", "l">>

\* the normalized GBs field of an unlimited plan, the string "Unlimited"
UnlimitedGBs == [k |-> "Unlimited"]

\* p.Description and p.usku are strings ("" when absent), p.GBs is any
\* value, p.Validity_Days and p.retailRate are numbers; brandId and
\* dealerRate are copied and not modelled
normalizePlanRecord(p) ==
  LET desc == p.Description
      usku == p.usku
      GBsRaw == JsString(p.GBs)
      isUnlimited ==
        \/ Includes(ToLowerCase(desc), sUnlimited)
        \/ Includes(ToLowerCase(usku), sUnl)
        \/ ToLowerCase(GBsRaw) = sUnlimited
        \/ ToLowerCase(GBsRaw) = sUnl
        \/ GBsRaw = <<"0">>
      gbsNum == IF isUnlimited THEN PosInf ELSE ToNumber(p.GBs)
  IN [planId |-> p.planId,
      GBs |-> IF isUnlimited THEN UnlimitedGBs ELSE ToNumber(p.GBs),
      gbsNum |-> gbsNum,
      Validity_Days |-> p.Validity_Days,
      retailRate |-> p.retailRate,
      usku |-> usku,
      description |-> desc,
      isUnlimited |-> isUnlimited]

\* sortPlans without the branches that put unlimited plans last
sortPlansNoUnlimitedLast(a, b) ==
  IF isFinite(a.gbsNum) /\ isFinite(b.gbsNum) /\ a.gbsNum.n # b.gbsNum.n
  THEN a.gbsNum.n - b.gbsNum.n
  ELSE IF a.Validity_Days # b.Validity_Days
  THEN a.Validity_Days - b.Validity_Days
  ELSE a.retailRate - b.retailRate

\* the comparator: negative, zero or positive
sortPlans(a, b) ==
  IF isFinite(a.gbsNum) /\ isFinite(b.gbsNum) /\ a.gbsNum.n # b.gbsNum.n
  THEN a.gbsNum.n - b.gbsNum.n
  ELSE IF isFinite(a.gbsNum) /\ ~isFinite(b.gbsNum) THEN 0 - 1
  ELSE IF ~isFinite(a.gbsNum) /\ isFinite(b.gbsNum) THEN 1
  ELSE IF a.Validity_Days # b.Validity_Days
  THEN a.Validity_Days - b.Validity_Days
  ELSE a.retailRate - b.retailRate

RECURSIVE InsertPlan(_, _)
\* x placed behind every element of the sorted list that does not compare
\* greater than x
InsertPlan(sorted, x) ==
  IF sorted = <<>> THEN <<x>>
  ELSE IF sortPlans(Head(sorted), x) <= 0
  THEN <<Head(sorted)>> \o InsertPlan(Tail(sorted), x)
  ELSE <<x>> \o sorted

RECURSIVE SortPlanList(_)
\* list.sort(sortPlans): Array.prototype.sort is stable
SortPlanList(list) ==
  IF list = <<>> THEN <<>>
  ELSE InsertPlan(SortPlanList(SubSeq(list, 1, Len(list) - 1)), list[Len(list)])

\* formatPlans(plans, limit) as the list of its entries, which the code
\* joins with "; "
formatPlans(plans, limit) ==
  LET list == Slice(plans, limit) IN
  [i \in 1..Len(list) |->
     [gbPart |-> IF list[i].isUnlimited THEN UnlimitedGBs ELSE list[i].GBs,
      days |-> list[i].Validity_Days,
      rate |-> list[i].retailRate]]

(***************************************************************************)
(* Responses, outbound calls and upstream replies                          *)
(***************************************************************************)
NONE == [t |-> "none"]

\* res.status(s).json({error: e, ...})
ErrorBody(e) == [kind |-> "error", error |-> e]

\* res.status(s).type("application/json").send(text)
TextBody(text) == [kind |-> "text", text |-> text]

Response(status, body) == [status |-> status, body |-> body]

\* the handler answers and returns
Respond(s, status, body) ==
  [s EXCEPT !.pc = "done", !.resp = Response(status, body)]

\* the handler issues an outbound call and suspends at its await
CallOut(s, url, arg) ==
  [s EXCEPT !.pc = url, !.calls = Append(@, [url |-> url, arg |-> arg])]

\* ProxyError without the catch block: the exception escapes the handler
\* and no response is sent
ProxyErrorUncaught(s) == [s EXCEPT !.pc = "done"]

\* the catch block of every route
ProxyError(s) == Respond(s, 500, ErrorBody("proxy_error"))

\* r.ok of fetch: the status is in the range 200-299
Ok(reply) == reply.status >= 200 /\ reply.status <= 299

\* the JSON value null
JsonNull == [t |-> "null"]

\* an upstream body: text that JSON.parse rejects, or text that parses to
\* the value json
BadText(raw) == [valid |-> FALSE, raw |-> raw]

JsonText(json) == [valid |-> TRUE, json |-> json]

\* Array.isArray(json?.Data)
HasDataArray(json) == json.t = "object" /\ json.Data.t = "array"

\* Array.isArray(json?.Data) ? json.Data : []
DataList(json) == IF HasDataArray(json) THEN json.Data.items ELSE <<>>

(***************************************************************************)
(* GET /health                                                             *)
(***************************************************************************)
HandleHealth(s) == Respond(s, 200, [kind |-> "health", ok |-> TRUE])

(***************************************************************************)
(* /balance and /balance-clean                                             *)
(***************************************************************************)
\* StartBalance without the length check of the route: any non-empty
\* identifier is forwarded
StartBalanceNoLengthCheck(s, c) ==
  IF ~c.key THEN Respond(s, 500, ErrorBody("config_error"))
  ELSE LET iccid == pickIccid(s.req, c) IN
       IF iccid = <<>>
       THEN Respond(s, 400, ErrorBody("missing_or_invalid_iccid"))
       ELSE CallOut(s, "usage", iccid)

\* both routes up to their fetch
StartBalance(s, c) ==
  IF ~c.key THEN Respond(s, 500, ErrorBody("config_error"))
  ELSE LET iccid == pickIccid(s.req, c) IN
       IF iccid = <<>> \/ ~isIccidLengthOK(iccid, c)
       THEN Respond(s, 400, ErrorBody("missing_or_invalid_iccid"))
       ELSE CallOut(s, "usage", iccid)

\* BalanceAfterUsage that passes only successful replies through
BalanceAfterUsageOkOnly(s, reply) ==
  IF reply.net THEN ProxyError(s)
  ELSE IF ~Ok(reply) THEN Respond(s, 502, ErrorBody("upstream_error"))
  ELSE Respond(s, reply.status, TextBody(reply.text))

\* /balance after its fetch
BalanceAfterUsage(s, reply) ==
  IF reply.net THEN ProxyError(s)
  ELSE Respond(s, reply.status, TextBody(reply.text))

\* the byte counts of the model, in units of 10^6 bytes, that lie half way
\* between two hundredths of a GB and whose quotient by 10^9 is a double
\* below the half (1005000000 / 10^9 is 1.00499999999999989...): toFixed(2)
\* rounds these down, and every other half up
HalfBelow == {15, 45, 1005, 1015, 2675}

\* toGB that cuts the third decimal off
toGBTruncated(n) == (IF Truthy(n) THEN n.n ELSE 0) \div 10

\* byte counts are counted in units of 10^6 bytes, GB values in hundredths:
\* Number((Number(n || 0) / 1_000_000_000).toFixed(2))
toGB(n) ==
  LET bytes == IF Truthy(n) THEN n.n ELSE 0 IN
  IF bytes \in HalfBelow THEN bytes \div 10 ELSE (bytes + 5) \div 10

EmptyObject ==
  [name |-> UNDEF, description |-> UNDEF, assignments |-> <<>>,
   initialQuantity |-> UNDEF, remainingQuantity |-> UNDEF, allowances |-> <<>>,
   bundleState |-> UNDEF, startTime |-> UNDEF, assignmentDateTime |-> UNDEF,
   endTime |-> UNDEF]

\* /balance-clean after its fetch
CleanAfterUsage(s, reply) ==
  IF reply.net THEN ProxyError(s)
  ELSE IF ~Ok(reply) THEN Respond(s, reply.status, TextBody(reply.text))
  ELSE IF ~reply.text.valid THEN ProxyError(s)
  ELSE
    LET data == reply.text.json
        b == IF data.t = "object" /\ Len(data.bundles) > 0
             THEN data.bundles[1] ELSE EmptyObject
        a == IF Len(b.assignments) > 0 THEN b.assignments[1] ELSE EmptyObject
        planName == Or(a.name, Or(b.name, Str(<<>>)))
        description == Or(a.description, Or(b.description, Str(<<>>)))
        label == extractRegionOrIso2Label(planName, description)
        firstAllowance ==
          IF Len(a.allowances) > 0 THEN a.allowances[1]
          ELSE [initialAmount |-> UNDEF, remainingAmount |-> UNDEF]
        initialBytes ==
          Nullish(a.initialQuantity, Nullish(firstAllowance.initialAmount, Num(0)))
        remainingBytes ==
          Nullish(a.remainingQuantity, Nullish(firstAllowance.remainingAmount, Num(0)))
    IN IF label.thrown THEN ProxyError(s)
       ELSE Respond(s, 200,
              [kind |-> "usage",
               planName |-> planName,
               description |-> description,
               country |-> label.label,
               bundleState |-> ToLowerCase(StringOf(Or(a.bundleState, Str(<<>>)))),
               validFrom |-> Or(a.startTime, Or(a.assignmentDateTime, Str(<<>>))),
               validUntil |-> Or(a.endTime, Str(<<>>)),
               initialGB |-> toGB(initialBytes),
               remainingGB |-> toGB(remainingBytes)])

(***************************************************************************)
(* /plans-by-destination                                                   *)
(***************************************************************************)
sEuropeDefault == <<"E", "u", "r", "o", "p", "e">>

\* the destination the handler works with
Destination(req) ==
  LET fromBody ==
        IF req.body.t = "object"
        THEN Or(req.body.destination,
                IF req.body.arguments.t = "object"
                THEN req.body.arguments.destination ELSE UNDEF)
        ELSE UNDEF
      chosen == Or(fromBody, Or(req.query.destination, Str(sEuropeDefault)))
      trimmed == Trim(StringOf(chosen))
  IN IF trimmed = <<>> THEN sEuropeDefault ELSE trimmed

DefaultLimit == 10

MaxLimit == 50

\* Limit without the cap of 50
LimitNoCap(req) ==
  LET fromBody == IF req.body.t = "object" THEN req.body.limit ELSE UNDEF
      limitParam == ToNumber(Or(req.query.limit, Or(fromBody, Num(DefaultLimit))))
  IN IF isFinite(limitParam) /\ limitParam.n > 0
     THEN limitParam.n ELSE DefaultLimit

\* the number of entries of topText
Limit(req) ==
  LET fromBody == IF req.body.t = "object" THEN req.body.limit ELSE UNDEF
      limitParam == ToNumber(Or(req.query.limit, Or(fromBody, Num(DefaultLimit))))
  IN IF isFinite(limitParam) /\ limitParam.n > 0
     THEN Min2(limitParam.n, MaxLimit) ELSE DefaultLimit

\* StartPlans that reports a configuration error only when both credentials
\* are missing
StartPlansBothMissing(s, c) ==
  LET t == [s EXCEPT !.loc = [destination |-> Destination(s.req),
                               limit |-> Limit(s.req)]]
  IN IF ~c.email /\ ~c.password
     THEN Respond(t, 500, ErrorBody("config_error"))
     ELSE CallOut(t, "coverage", NONE)

\* StartPlans with the destination kept in a variable that all requests
\* share: while another request is suspended on this route, its destination
\* is used
StartPlansSharedDestination(s, c) ==
  LET others == {q \in DOMAIN reqs : reqs[q].route = "plans-by-destination"
                                      /\ reqs[q].pc \notin {"idle", "done"}}
      destination == IF others = {} THEN Destination(s.req)
                     ELSE reqs[CHOOSE q \in others : TRUE].loc.destination
      t == [s EXCEPT !.loc = [destination |-> destination, limit |-> Limit(s.req)]]
  IN IF ~c.email \/ ~c.password
     THEN Respond(t, 500, ErrorBody("config_error"))
     ELSE CallOut(t, "coverage", NONE)

\* the handler up to its first postForm
StartPlans(s, c) ==
  LET t == [s EXCEPT !.loc = [destination |-> Destination(s.req),
                               limit |-> Limit(s.req)]]
  IN IF ~c.email \/ ~c.password
     THEN Respond(t, 500, ErrorBody("config_error"))
     ELSE CallOut(t, "coverage", NONE)

\* AfterCoverageBody without the try/catch around JSON.parse
AfterCoverageBodyNoCatch(s, text) ==
  IF ~text.valid THEN ProxyError(s)
  ELSE LET list == DataList(text.json)
           rec == pickCoverageRecord(s.loc.destination, list)
       IN IF rec = 0
          THEN Respond(s, 404,
                 [kind |-> "error", error |-> "not_found",
                  suggestions |-> [i \in 1..Len(Slice(list, 10)) |-> list[i].country]])
          ELSE CallOut([s EXCEPT !.loc =
                          [destination |-> s.loc.destination,
                           limit |-> s.loc.limit,
                           label |-> list[rec].country,
                           iso2 |-> list[rec].iso2,
                           isRegion |->
                             ToLowerCase(list[rec].region) = <<"y", "e", "s">>]],
                       "country-plans", list[rec].iso2)

\* AfterCoverageBody that suggests every country of the list
AfterCoverageBodyAllSuggestions(s, text) ==
  IF ~text.valid THEN Respond(s, 502, ErrorBody("bad_coverage_payload"))
  ELSE LET list == DataList(text.json)
           rec == pickCoverageRecord(s.loc.destination, list)
       IN IF rec = 0
          THEN Respond(s, 404,
                 [kind |-> "error", error |-> "not_found",
                  suggestions |-> [i \in 1..Len(list) |-> list[i].country]])
          ELSE CallOut([s EXCEPT !.loc =
                          [destination |-> s.loc.destination,
                           limit |-> s.loc.limit,
                           label |-> list[rec].country,
                           iso2 |-> list[rec].iso2,
                           isRegion |->
                             ToLowerCase(list[rec].region) = <<"y", "e", "s">>]],
                       "country-plans", list[rec].iso2)

\* AfterCoverageBody that asks for the plans of the first record of the
\* coverage list instead of the selected one
AfterCoverageBodyFirstRecord(s, text) ==
  IF ~text.valid THEN Respond(s, 502, ErrorBody("bad_coverage_payload"))
  ELSE LET list == DataList(text.json)
           rec == pickCoverageRecord(s.loc.destination, list)
       IN IF rec = 0
          THEN Respond(s, 404,
                 [kind |-> "error", error |-> "not_found",
                  suggestions |-> [i \in 1..Len(Slice(list, 10)) |-> list[i].country]])
          ELSE CallOut([s EXCEPT !.loc =
                          [destination |-> s.loc.destination,
                           limit |-> s.loc.limit,
                           label |-> list[rec].country,
                           iso2 |-> list[1].iso2,
                           isRegion |->
                             ToLowerCase(list[rec].region) = <<"y", "e", "s">>]],
                       "country-plans", list[1].iso2)

\* from the parsed coverage body to the plan lookup
AfterCoverageBody(s, text) ==
  IF ~text.valid THEN Respond(s, 502, ErrorBody("bad_coverage_payload"))
  ELSE LET list == DataList(text.json)
           rec == pickCoverageRecord(s.loc.destination, list)
       IN IF rec = 0
          THEN Respond(s, 404,
                 [kind |-> "error", error |-> "not_found",
                  suggestions |-> [i \in 1..Len(Slice(list, 10)) |-> list[i].country]])
          ELSE CallOut([s EXCEPT !.loc =
                          [destination |-> s.loc.destination,
                           limit |-> s.loc.limit,
                           label |-> list[rec].country,
                           iso2 |-> list[rec].iso2,
                           isRegion |->
                             ToLowerCase(list[rec].region) = <<"y", "e", "s">>]],
                       "country-plans", list[rec].iso2)

\* after the reply of /api/coverage
AfterCoverage(s, reply) ==
  IF reply.net THEN ProxyError(s)
  ELSE IF ~Ok(reply) THEN CallOut(s, "coverage.php", NONE)
  ELSE AfterCoverageBody(s, reply.text)

\* after the reply of /api/coverage.php
AfterCoveragePhp(s, reply) ==
  IF reply.net THEN ProxyError(s)
  ELSE IF ~Ok(reply) THEN Respond(s, reply.status, TextBody(reply.text))
  ELSE AfterCoverageBody(s, reply.text)

\* from the parsed plans body to the answer
AfterPlansBody(s, text) ==
  IF ~text.valid THEN Respond(s, 502, ErrorBody("bad_plans_payload"))
  ELSE LET plansRaw == DataList(text.json)
           normalized ==
             SortPlanList([i \in 1..Len(plansRaw) |-> normalizePlanRecord(plansRaw[i])])
       IN \* normalizePlanRecord(null) throws at p.Description
          IF \E i \in 1..Len(plansRaw) : plansRaw[i] = JsonNull THEN ProxyError(s)
          ELSE Respond(s, 200,
                 [kind |-> "plans",
                  label |-> s.loc.label,
                  iso2 |-> s.loc.iso2,
                  isRegion |-> s.loc.isRegion,
                  totalPlans |-> Len(normalized),
                  plans |-> normalized,
                  topText |-> formatPlans(normalized, s.loc.limit),
                  top3Text |-> formatPlans(normalized, 3)])

\* AfterPlans that also tries the fallback URL when a success body is not
\* valid JSON
AfterPlansFallbackOnBadBody(s, reply) ==
  IF reply.net THEN ProxyError(s)
  ELSE IF ~Ok(reply) \/ ~reply.text.valid
  THEN CallOut(s, "country-plans.php", s.loc.iso2)
  ELSE AfterPlansBody(s, reply.text)

\* after the reply of /api/country-plans
AfterPlans(s, reply) ==
  IF reply.net THEN ProxyError(s)
  ELSE IF ~Ok(reply) THEN CallOut(s, "country-plans.php", s.loc.iso2)
  ELSE AfterPlansBody(s, reply.text)

\* AfterPlansPhp that tries the fallback URL again when it fails
AfterPlansPhpRetry(s, reply) ==
  IF reply.net THEN ProxyError(s)
  ELSE IF ~Ok(reply) THEN CallOut(s, "country-plans.php", s.loc.iso2)
  ELSE AfterPlansBody(s, reply.text)

\* after the reply of /api/country-plans.php
AfterPlansPhp(s, reply) ==
  IF reply.net THEN ProxyError(s)
  ELSE IF ~Ok(reply) THEN Respond(s, reply.status, TextBody(reply.text))
  ELSE AfterPlansBody(s, reply.text)

(***************************************************************************)
(* Configuration (environment)                                             *)
(***************************************************************************)
\* the defaults of MIN_ICCID_LEN and MAX_ICCID_LEN
DefaultMinLen == 18

DefaultMaxLen == 22

Config(key, email, password, minLen, maxLen) ==
  [key |-> key, email |-> email, password |-> password,
   minLen |-> minLen, maxLen |-> maxLen]

\* the environments the server is started in: everything set with the
\* default bounds, one credential missing, and other identifier bounds
Configs ==
  {Config(TRUE, TRUE, TRUE, DefaultMinLen, DefaultMaxLen),
   Config(FALSE, TRUE, TRUE, DefaultMinLen, DefaultMaxLen),
   Config(TRUE, FALSE, TRUE, DefaultMinLen, DefaultMaxLen),
   Config(TRUE, TRUE, FALSE, DefaultMinLen, DefaultMaxLen),
   Config(TRUE, TRUE, TRUE, 15, 20)}

(***************************************************************************)
(* Inbound requests                                                        *)
(***************************************************************************)
\* n digits, no two neighbours equal
Digits(n) == [i \in 1..n |-> DigitSeq[((i * 7) % 10) + 1]]

NoBody == [t |-> "none"]

NoQuery == [iccid |-> UNDEF, ICCID |-> UNDEF, destination |-> UNDEF, limit |-> UNDEF]

NoHeaders == [xiccid |-> UNDEF, xiccidnumber |-> UNDEF]

\* a request without path parameter, query, identifier headers and body
EmptyReq ==
  [params |-> UNDEF, query |-> NoQuery, headers |-> NoHeaders, body |-> NoBody]

\* a JSON object body without any of the fields the routes read
EmptyBody ==
  [t |-> "object", iccid |-> UNDEF, ICCID |-> UNDEF, value |-> UNDEF,
   number |-> UNDEF, arguments |-> UNDEF, tool_input |-> UNDEF,
   payload |-> UNDEF, destination |-> UNDEF, limit |-> UNDEF]

Nested(iccid, destination) ==
  [t |-> "object", iccid |-> iccid, ICCID |-> UNDEF, destination |-> destination]

\* " 8944 4780 1234 5678 9"
SpacedExample ==
  <<" ", "8", "9", "4", "4", " ", "4", "7", "8", "0", " ", "1", "2", "3", "4", " ", "5", "6", "7", "8", " ", "9">>

\* the requests sent to /balance and /balance-clean
IccidReqs ==
  {EmptyReq,
   [EmptyReq EXCEPT !.query.iccid = Str(SpacedExample)],
   [EmptyReq EXCEPT !.params = Str(Digits(19))],
   [EmptyReq EXCEPT !.headers.xiccid = Str(<<"a", "b", "c">>)],
   [EmptyReq EXCEPT !.body = [EmptyBody EXCEPT
                                !.arguments = Nested(Str(Digits(20)), UNDEF)]],
   [EmptyReq EXCEPT !.query.ICCID = Str(Digits(25))],
   [EmptyReq EXCEPT !.params = Str(Digits(9)), !.query.iccid = Str(Digits(9))]}

sSpai == <<"s", "p", "a", "i">>

sEU == <<"E", "U">>

sES == <<"E", "S">>

sAtlantis == <<"A", "t", "l", "a", "n", "t", "i", "s">>

\* the requests sent to /plans-by-destination
PlansReqs ==
  {EmptyReq,
   [EmptyReq EXCEPT !.body = [EmptyBody EXCEPT !.destination = Str(sSpai),
                                               !.limit = Num(3)]],
   [EmptyReq EXCEPT !.query.destination = Str(sAtlantis)],
   [EmptyReq EXCEPT !.body = [EmptyBody EXCEPT
                                !.arguments = Nested(UNDEF, Str(sES))],
                    !.query.limit = Str(<<"6", "0">>)]}

(***************************************************************************)
(* Upstream bodies                                                         *)
(***************************************************************************)
\* a JSON object without Data and without bundles, such as {"error": "..."}
JsonErrorObject == [t |-> "object", Data |-> UNDEF, bundles |-> <<>>]

JsonData(items) ==
  [t |-> "object", Data |-> [t |-> "array", items |-> items], bundles |-> <<>>]

JsonUsage(bundles) == [t |-> "object", Data |-> UNDEF, bundles |-> bundles]

CoverageRecord(country, iso2, region) ==
  [country |-> country, iso2 |-> iso2, region |-> region]

sYes == <<"Y", "e", "s">>

sNo == <<"N", "o">>

CoverageMaster ==
  <<CoverageRecord(<<"S", "p", "a", "i", "n">>, <<"E", "S">>, sNo),
    CoverageRecord(<<"E", "U", "+">>, <<"E", "U">>, sYes),
    CoverageRecord(<<"F", "r", "a", "n", "c", "e">>, <<"F", "R">>, sNo),
    CoverageRecord(<<"G", "r", "e", "e", "c", "e">>, <<"G", "R">>, sNo),
    CoverageRecord(<<"U", "n", "i", "t", "e", "d", " ", "S", "t", "a", "t", "e", "s">>, <<"U", "S">>, sNo)>>

\* the i-th record of the upstream coverage list
CoverageItem(i) ==
  IF i <= Len(CoverageMaster) THEN CoverageMaster[i]
  ELSE CoverageRecord(<<"Z">> \o NatToString(i), <<"Z">> \o NatToString(i % 10), sNo)

CoverageList(n) == [i \in 1..n |-> CoverageItem(i)]

\* the longest coverage list the upstream returns
MaxCovLen == 12

CoverageLengths == {0, 2, MaxCovLen}

RawPlan(planId, GBs, days, rate, usku, description) ==
  [planId |-> planId, GBs |-> GBs, Validity_Days |-> days, retailRate |-> rate,
   usku |-> usku, Description |-> description]

\* the spec's example: GB values 5, "Unlimited", 1
ExamplePlans ==
  <<RawPlan(1, Num(5), 30, 20, <<>>, <<>>),
    RawPlan(2, Str(<<"U", "n", "l", "i", "m", "i", "t", "e", "d">>), 7, 15, <<>>, <<>>),
    RawPlan(3, Num(1), 7, 5, <<>>, <<>>)>>

\* a plan with GBs "0", the cheapest, ahead of finite plans
ZeroPlans ==
  <<RawPlan(1, Str(<<"0">>), 1, 1, <<>>, <<>>),
    RawPlan(2, Num(3), 7, 9, <<>>, <<>>),
    RawPlan(3, Num(3), 7, 8, <<>>, <<>>)>>

\* a plan list whose second record is null
NullPlan == <<RawPlan(1, Num(5), 30, 20, <<>>, <<>>), JsonNull>>

Assignment(name, description, initialQuantity, remainingQuantity) ==
  [EmptyObject EXCEPT !.name = name, !.description = description,
                      !.initialQuantity = initialQuantity,
                      !.remainingQuantity = remainingQuantity]

Bundle(name, assignments) ==
  [EmptyObject EXCEPT !.name = name, !.assignments = assignments]

Allowance(initialAmount, remainingAmount) ==
  [initialAmount |-> initialAmount, remainingAmount |-> remainingAmount]

sPlanReup == <<"e", "s", "i", "m", "_", "1", "G", "B", "_", "7", "D", "_", "R", "E", "U", "P", "_", "V", "2">>

\* a usage body: 5000000000 bytes initially, 1250000000 remaining
UsageExample ==
  JsonUsage(<<Bundle(UNDEF, <<Assignment(Str(sPlanReup), UNDEF, Num(5000), Num(1250))>>)>>)

\* a usage body whose plan name is a number
UsageNumericName ==
  JsonUsage(<<Bundle(Num(7), <<>>)>>)

sPlanEs == <<"e", "s", "i", "m", "_", "E", "S">>

\* an assignment without quantity fields: 3000000000 and 1005000000 bytes
\* in its first allowance, other amounts in its second
UsageAllowances ==
  JsonUsage(<<Bundle(UNDEF,
     <<[Assignment(Str(sPlanEs), UNDEF, UNDEF, UNDEF) EXCEPT
          !.allowances = <<Allowance(Num(3000), Num(1005)),
                           Allowance(Num(9000), Num(9000))>>]>>)>>)

\* quantity fields, remainingQuantity being 0, next to an allowance
UsageQuantityAndAllowance ==
  JsonUsage(<<Bundle(UNDEF,
     <<[Assignment(Str(sPlanEs), UNDEF, Num(2675), Num(0)) EXCEPT
          !.allowances = <<Allowance(Num(8000), Num(8000))>>]>>)>>)

\* two bundles, the first with two assignments
UsageTwoBundles ==
  JsonUsage(<<Bundle(UNDEF, <<Assignment(Str(sPlanEs), UNDEF, Num(1257), Num(1125)),
                              Assignment(Str(sPlanEs), UNDEF, Num(7000), Num(7000))>>),
              Bundle(UNDEF, <<Assignment(Str(sPlanEs), UNDEF, Num(9000), Num(9000))>>)>>)

\* a bundle without assignments
UsageNoAssignment == JsonUsage(<<Bundle(Str(sPlanEs), <<>>)>>)

NetworkFailure == [net |-> TRUE]

Reply(status, text) == [net |-> FALSE, status |-> status, text |-> text]

ErrorTexts == {BadText("html"), JsonText(JsonErrorObject)}

FailStatuses == {404, 503}

FailReplies == {Reply(st, tx) : st \in FailStatuses, tx \in ErrorTexts}

UsageReplies ==
  {NetworkFailure} \cup FailReplies
  \cup {Reply(200, tx) : tx \in {BadText("html"), JsonText(JsonNull),
                                 JsonText(UsageExample), JsonText(UsageNumericName),
                                 JsonText(UsageAllowances),
                                 JsonText(UsageQuantityAndAllowance),
                                 JsonText(UsageTwoBundles),
                                 JsonText(UsageNoAssignment)}}

CoverageReplies ==
  {NetworkFailure} \cup FailReplies
  \cup {Reply(200, tx) : tx \in {BadText("html"), JsonText(JsonErrorObject)}}
  \cup {Reply(200, JsonText(JsonData(CoverageList(n)))) : n \in CoverageLengths}

PlansReplies ==
  {NetworkFailure} \cup FailReplies
  \cup {Reply(200, tx) : tx \in {BadText("html"), JsonText(JsonErrorObject),
                                 JsonText(JsonData(ExamplePlans)),
                                 JsonText(JsonData(ZeroPlans)),
                                 JsonText(JsonData(NullPlan))}}

(***************************************************************************)
(* The server: requests in flight, suspended at their outbound calls       *)
(***************************************************************************)
\* the number of requests that are handled at the same time
MaxInFlight == 1

Reqs == 1..MaxInFlight

\* pc is the URL of the outbound call the handler awaits; calls lists the
\* outbound calls issued so far and last is the upstream reply the handler
\* last resumed with
Idle ==
  [pc |-> "idle", route |-> "", req |-> NONE, loc |-> NONE,
   calls |-> <<>>, last |-> NONE, resp |-> NONE]

\* the handler resumed with reply and ran to the slot state s
Resumed(s, reply) == [s EXCEPT !.last = reply]

Arrived(route, req) == [Idle EXCEPT !.pc = "run", !.route = route, !.req = req]

\* probe holds one application of a function of the program to an input
NoProbe == [op |-> "none"]

Init ==
  /\ cfg \in Configs
  /\ reqs = [r \in Reqs |-> Idle]
  /\ probe = NoProbe

ReceiveHealth(r) ==
  /\ reqs[r].pc = "idle"
  /\ reqs' = [reqs EXCEPT ![r] = HandleHealth(Arrived("health", EmptyReq))]
  /\ UNCHANGED <<cfg, probe>>

ReceiveBalance(r) ==
  /\ reqs[r].pc = "idle"
  /\ \E req \in IccidReqs :
       reqs' = [reqs EXCEPT ![r] = StartBalance(Arrived("balance", req), cfg)]
  /\ UNCHANGED <<cfg, probe>>

ReceiveBalanceClean(r) ==
  /\ reqs[r].pc = "idle"
  /\ \E req \in IccidReqs :
       reqs' = [reqs EXCEPT ![r] = StartBalance(Arrived("balance-clean", req), cfg)]
  /\ UNCHANGED <<cfg, probe>>

ReceivePlans(r) ==
  /\ reqs[r].pc = "idle"
  /\ \E req \in PlansReqs :
       reqs' = [reqs EXCEPT ![r] = StartPlans(Arrived("plans-by-destination", req), cfg)]
  /\ UNCHANGED <<cfg, probe>>

BalanceUsageReply(r) ==
  /\ reqs[r].pc = "usage"
  /\ reqs[r].route = "balance"
  /\ \E reply \in UsageReplies :
       reqs' = [reqs EXCEPT ![r] = Resumed(BalanceAfterUsage(reqs[r], reply), reply)]
  /\ UNCHANGED <<cfg, probe>>

CleanUsageReply(r) ==
  /\ reqs[r].pc = "usage"
  /\ reqs[r].route = "balance-clean"
  /\ \E reply \in UsageReplies :
       reqs' = [reqs EXCEPT ![r] = Resumed(CleanAfterUsage(reqs[r], reply), reply)]
  /\ UNCHANGED <<cfg, probe>>

CoverageReply(r) ==
  /\ reqs[r].pc = "coverage"
  /\ \E reply \in CoverageReplies :
       reqs' = [reqs EXCEPT ![r] = Resumed(AfterCoverage(reqs[r], reply), reply)]
  /\ UNCHANGED <<cfg, probe>>

CoveragePhpReply(r) ==
  /\ reqs[r].pc = "coverage.php"
  /\ \E reply \in CoverageReplies :
       reqs' = [reqs EXCEPT ![r] = Resumed(AfterCoveragePhp(reqs[r], reply), reply)]
  /\ UNCHANGED <<cfg, probe>>

PlansReply(r) ==
  /\ reqs[r].pc = "country-plans"
  /\ \E reply \in PlansReplies :
       reqs' = [reqs EXCEPT ![r] = Resumed(AfterPlans(reqs[r], reply), reply)]
  /\ UNCHANGED <<cfg, probe>>

PlansPhpReply(r) ==
  /\ reqs[r].pc = "country-plans.php"
  /\ \E reply \in PlansReplies :
       reqs' = [reqs EXCEPT ![r] = Resumed(AfterPlansPhp(reqs[r], reply), reply)]
  /\ UNCHANGED <<cfg, probe>>

\* the response has been sent; the request is over
Close(r) ==
  /\ reqs[r].pc = "done"
  /\ reqs' = [reqs EXCEPT ![r] = Idle]
  /\ UNCHANGED <<cfg, probe>>

Next ==
  \E r \in Reqs :
    \/ ReceiveHealth(r)
    \/ ReceiveBalance(r)
    \/ ReceiveBalanceClean(r)
    \/ ReceivePlans(r)
    \/ BalanceUsageReply(r)
    \/ CleanUsageReply(r)
    \/ CoverageReply(r)
    \/ CoveragePhpReply(r)
    \/ PlansReply(r)
    \/ PlansPhpReply(r)
    \/ Close(r)

Spec == Init /\ [][Next]_vars

TypeOK ==
  /\ cfg \in Configs
  /\ \A r \in Reqs :
       reqs[r].pc \in {"idle", "usage", "coverage", "coverage.php",
                       "country-plans", "country-plans.php", "done"}

(***************************************************************************)
(* The label resolver applied to the plan names and descriptions of        *)
(* upstream usage bodies                                                   *)
(***************************************************************************)
DefaultConfig == Config(TRUE, TRUE, TRUE, DefaultMinLen, DefaultMaxLen)

InitProbe ==
  /\ cfg = DefaultConfig
  /\ reqs = [r \in Reqs |-> Idle]
  /\ probe = NoProbe

\* trailing codes in neither table
UnknownCodes ==
  {<<"X", "X">>, <<"A", "B", "C">>, <<"Z", "Z", "Z", "Z">>, <<"Q", "Q", "Q", "Q", "Q">>}

PlanCodes == DOMAIN REGION_CODES \cup DOMAIN ISO2_COUNTRIES \cup UnknownCodes

\* what precedes the trailing code: "esim_1GB_7D" and "A_ES"
PlanPrefixes == {<<"e", "s", "i", "m", "_", "1", "G", "B", "_", "7", "D">>, <<"A", "_", "E", "S">>}

\* the version suffixes: none, "_V2", "_v10"
VersionSuffixes == {<<>>, <<"_", "V", "2">>, <<"_", "v", "1", "0">>}

\* a truthy value that is not a string, such as the number 7
NonString == Num(7)

\* descriptions: "", "Plan for GR", "5GB XX or ES", and a number
Descriptions ==
  {Str(<<>>), Str(<<"P", "l", "a", "n", " ", "f", "o", "r", " ", "G", "R">>), Str(<<"5", "G", "B", " ", "X", "X", " ", "o", "r", " ", "E", "S">>), NonString}

\* extractRegionOrIso2Label(planName, description) for a plan name that ends
\* in _code with an optional version suffix
ProbeLabel ==
  /\ probe = NoProbe
  /\ \E prefix \in PlanPrefixes, code \in PlanCodes,
        suffix \in VersionSuffixes, description \in Descriptions :
       LET planName == Str(prefix \o <<"_">> \o code \o suffix) IN
       probe' = [op |-> "label", code |-> code, planName |-> planName,
                 description |-> description,
                 out |-> extractRegionOrIso2Label(planName, description)]
  /\ UNCHANGED <<cfg, reqs>>

\* extractRegionOrIso2Label for a plan name that is not a string
ProbeLabelNonString ==
  /\ probe = NoProbe
  /\ \E description \in Descriptions :
       probe' = [op |-> "label", code |-> NoMatch, planName |-> NonString,
                 description |-> description,
                 out |-> extractRegionOrIso2Label(NonString, description)]
  /\ UNCHANGED <<cfg, reqs>>

NextLabel == ProbeLabelNonString \/ ProbeLabel

SpecLabel == InitProbe /\ [][NextLabel]_vars

(***************************************************************************)
(* The identifier extractor applied to requests whose only identifier is   *)
(* a query parameter of digits separated by spaces                         *)
(***************************************************************************)
\* the longest identifier, in digits
MaxDigits == 24

\* the longest group of digits between two spaces
MaxGroup == 4

RECURSIVE Spaced(_, _)
\* the digits d with a space after every group of g digits
Spaced(d, g) ==
  IF Len(d) <= g THEN d
  ELSE SubSeq(d, 1, g) \o <<" ">> \o Spaced(SubSeq(d, g + 1, Len(d)), g)

\* "89444780123456789"
ExampleDigits == <<"8", "9", "4", "4", "4", "7", "8", "0", "1", "2", "3", "4", "5", "6", "7", "8", "9">>

\* pairs of a digit string and a spelling of it with spaces
SpacedInputs ==
  {<<ExampleDigits, SpacedExample>>}
  \cup {<<Digits(n), Spaced(Digits(n), g)>> : n \in 1..MaxDigits, g \in 1..MaxGroup}
  \cup {<<Digits(n), <<" ">> \o Spaced(Digits(n), g)>> :
          n \in 1..MaxDigits, g \in 1..MaxGroup}

\* pickIccid, and the route up to its fetch, for such a request
ProbeSpacedIccid ==
  /\ probe = NoProbe
  /\ \E in \in SpacedInputs :
       LET req == [EmptyReq EXCEPT !.query.iccid = Str(in[2])] IN
       probe' = [op |-> "iccid", digits |-> in[1], req |-> req,
                 out |-> pickIccid(req, cfg),
                 slot |-> StartBalance(Arrived("balance", req), cfg)]
  /\ UNCHANGED <<cfg, reqs>>

NextIccid == ProbeSpacedIccid

SpecIccid == InitProbe /\ [][NextIccid]_vars

(***************************************************************************)
(* The plan normalizer applied to upstream plan lists                      *)
(***************************************************************************)
\* the longest plan list
MaxPlans == 3

\* raw plans: finite volumes (one as the string "10"), the unlimited
\* conventions "0", 0, "Unlimited" and a description naming it, and a plan
\* without GBs
PlanTemplates ==
  {RawPlan(1, Num(1), 7, 5, <<>>, <<>>),
   RawPlan(2, Num(5), 30, 20, <<>>, <<>>),
   RawPlan(3, Num(5), 7, 25, <<>>, <<>>),
   RawPlan(4, Num(5), 7, 20, <<>>, <<>>),
   RawPlan(5, Str(<<"0">>), 1, 1, <<>>, <<>>),
   RawPlan(6, Num(0), 30, 2, <<>>, <<>>),
   RawPlan(7, Str(<<"U", "n", "l", "i", "m", "i", "t", "e", "d">>), 7, 15, <<>>, <<>>),
   RawPlan(8, Num(3), 1, 1, <<>>, <<"U", "n", "l", "i", "m", "i", "t", "e", "d", " ", "d", "a", "t", "a">>),
   RawPlan(9, UNDEF, 3, 2, <<>>, <<>>),
   RawPlan(10, Str(<<"1", "0">>), 7, 30, <<>>, <<>>)}

RawPlanLists == UNION {[1..n -> PlanTemplates] : n \in 0..MaxPlans}

\* a request to /plans-by-destination suspended at its plan lookup
AwaitingPlans ==
  AfterCoverage(StartPlans(Arrived("plans-by-destination", EmptyReq), DefaultConfig),
                Reply(200, JsonText(JsonData(CoverageList(2)))))

\* the answer of /plans-by-destination to a successful plan lookup
ProbePlans ==
  /\ probe = NoProbe
  /\ \E raw \in RawPlanLists :
       probe' = [op |-> "plans", raw |-> raw,
                 out |-> AfterPlansBody(AwaitingPlans, JsonText(JsonData(raw))).resp.body]
  /\ UNCHANGED <<cfg, reqs>>

NextPlans == ProbePlans

SpecPlans == InitProbe /\ [][NextPlans]_vars

(***************************************************************************)
(* /plans-by-destination applied to requests that carry a limit            *)
(***************************************************************************)
\* the longest plan list of a limited request
MaxListLen == 52

\* the limits clients send: numbers in a JSON body, numerals and other text
\* in a body or in the query string
LimitNumbers == {0 - 2, 0, 1, 2, 3, 10, 50, 51, 60}

LimitStrings == {<<"3">>, <<"0">>, <<"6", "0">>, <<"a", "b", "c">>}

\* requests with the limit in the body, in the query string, or absent
LimitReqs ==
  {EmptyReq}
  \cup {[EmptyReq EXCEPT !.body = [EmptyBody EXCEPT !.limit = Num(n)]] :
          n \in LimitNumbers}
  \cup {[EmptyReq EXCEPT !.body = [EmptyBody EXCEPT !.limit = Str(t)]] :
          t \in LimitStrings}
  \cup {[EmptyReq EXCEPT !.query.limit = Str(t)] : t \in LimitStrings}

\* n raw plans of varying volume, days and price
PlanList(n) ==
  [i \in 1..n |-> RawPlan(i, Num(((i * 7) % 13) + 1), ((i * 3) % 5) + 1, i, <<>>, <<>>)]

PlanListLengths == {0, 1, 2, 4, 11, MaxListLen}

LimitPlanLists == {ExamplePlans} \cup {PlanList(n) : n \in PlanListLengths}

\* the handler from the arrival of the request to its answer, both lookups
\* succeeding at the primary URL
ProbeLimit ==
  /\ probe = NoProbe
  /\ \E req \in LimitReqs, raw \in LimitPlanLists :
       LET atCoverage == StartPlans(Arrived("plans-by-destination", req), cfg)
           atPlans == AfterCoverage(atCoverage,
                                    Reply(200, JsonText(JsonData(CoverageList(2)))))
       IN probe' = [op |-> "limit", req |-> req, raw |-> raw,
                    slot |-> AfterPlans(atPlans, Reply(200, JsonText(JsonData(raw))))]
  /\ UNCHANGED <<cfg, reqs>>

NextLimit == ProbeLimit

SpecLimit == InitProbe /\ [][NextLimit]_vars

(***************************************************************************)
(* The destination matcher applied to phrases and coverage lists           *)
(***************************************************************************)
\* the longest coverage list given to the matcher
MaxRecs == 3

\* coverage records: countries, the regions "EU+" and "Europe", and
\* "Reunion", whose name contains "eu"
MatchRecords ==
  {CoverageRecord(<<"S", "p", "a", "i", "n">>, <<"E", "S">>, sNo),
   CoverageRecord(<<"E", "U", "+">>, <<"E", "U">>, sYes),
   CoverageRecord(<<"E", "u", "r", "o", "p", "e">>, <<"E", "U">>, sYes),
   CoverageRecord(<<"F", "r", "a", "n", "c", "e">>, <<"F", "R">>, sNo),
   CoverageRecord(<<"U", "n", "i", "t", "e", "d", " ", "S", "t", "a", "t", "e", "s">>, <<"U", "S">>, sNo),
   CoverageRecord(<<"R", "e", "u", "n", "i", "o", "n">>, <<"R", "E">>, sNo)}

\* the lists of up to MaxRecs different records, in every order
MatchLists ==
  UNION {{l \in [1..n -> MatchRecords] : \A i, j \in 1..n : l[i] = l[j] => i = j} :
           n \in 0..MaxRecs}

\* "spai", "EU", "eu+", "Europe", " SPAIN ", "ES", "fr", "united  states"
\* and "Atlantis"
MatchPhrases ==
  {sSpai, sEU, <<"e", "u", "+">>, sEuropeDefault,
   <<" ", "S", "P", "A", "I", "N", " ">>, sES, <<"f", "r">>,
   <<"u", "n", "i", "t", "e", "d", " ", " ", "s", "t", "a", "t", "e", "s">>,
   sAtlantis}

ProbeCoverage ==
  /\ probe = NoProbe
  /\ \E dest \in MatchPhrases, list \in MatchLists :
       probe' = [op |-> "coverage", dest |-> dest, list |-> list,
                 out |-> pickCoverageRecord(dest, list)]
  /\ UNCHANGED <<cfg, reqs>>

NextCoverage == ProbeCoverage

SpecCoverage == InitProbe /\ [][NextCoverage]_vars

(***************************************************************************)
(* The server followed one request at a time, with upstreams whose calls   *)
(* all complete or fail: a suspended handler is resumed when its fetch     *)
(* settles, and a request that has been answered is closed                 *)
(***************************************************************************)
OneAtATime == {1}

InitLive ==
  /\ cfg \in Configs
  /\ reqs = [r \in OneAtATime |-> Idle]
  /\ probe = NoProbe

UpstreamSettles(r) ==
  \/ BalanceUsageReply(r)
  \/ CleanUsageReply(r)
  \/ CoverageReply(r)
  \/ CoveragePhpReply(r)
  \/ PlansReply(r)
  \/ PlansPhpReply(r)

NextLive ==
  \E r \in OneAtATime :
    \/ ReceiveHealth(r)
    \/ ReceiveBalance(r)
    \/ ReceiveBalanceClean(r)
    \/ ReceivePlans(r)
    \/ UpstreamSettles(r)
    \/ Close(r)

SpecLive ==
  /\ InitLive
  /\ [][NextLive]_vars
  /\ \A r \in OneAtATime : WF_vars(UpstreamSettles(r)) /\ WF_vars(Close(r))

(***************************************************************************)
(* Requests handled concurrently, interleaved at their outbound calls; the *)
(* upstream replies each request has received are logged                   *)
(***************************************************************************)
\* the number of requests handled at the same time
MaxConc == 2

Conc == 1..MaxConc

NoReplies == [op |-> "log", replies |-> [r \in Conc |-> <<>>]]

InitConc ==
  /\ cfg = DefaultConfig
  /\ reqs = [r \in Conc |-> Idle]
  /\ probe = NoReplies

\* the inbound requests: two destinations and one identifier
ConcRequests ==
  {[route |-> "plans-by-destination",
    req |-> [EmptyReq EXCEPT !.query.destination = Str(sSpai)]],
   [route |-> "plans-by-destination",
    req |-> [EmptyReq EXCEPT !.query.destination = Str(sAtlantis)]],
   [route |-> "balance-clean", req |-> [EmptyReq EXCEPT !.params = Str(Digits(19))]]}

\* the replies of the upstream called at url
ConcReplies(url) ==
  IF url = "usage"
  THEN {NetworkFailure, Reply(200, JsonText(UsageExample))}
  ELSE IF url \in {"coverage", "coverage.php"}
  THEN {Reply(503, BadText("html")), Reply(200, JsonText(JsonData(CoverageList(2))))}
  ELSE {Reply(404, BadText("html")), Reply(200, JsonText(JsonData(ExamplePlans)))}

\* the handler of route runs from the arrival of req to its first await
Started(route, req, c) ==
  IF route = "plans-by-destination" THEN StartPlans(Arrived(route, req), c)
  ELSE StartBalance(Arrived(route, req), c)

\* the handler suspended in s resumes with reply and runs to its next await
\* or to its response
Continued(s, reply) ==
  Resumed(IF s.pc = "usage" /\ s.route = "balance" THEN BalanceAfterUsage(s, reply)
          ELSE IF s.pc = "usage" THEN CleanAfterUsage(s, reply)
          ELSE IF s.pc = "coverage" THEN AfterCoverage(s, reply)
          ELSE IF s.pc = "coverage.php" THEN AfterCoveragePhp(s, reply)
          ELSE IF s.pc = "country-plans" THEN AfterPlans(s, reply)
          ELSE AfterPlansPhp(s, reply),
          reply)

ConcReceive(r) ==
  /\ reqs[r].pc = "idle"
  /\ \E in \in ConcRequests :
       reqs' = [reqs EXCEPT ![r] = Started(in.route, in.req, cfg)]
  /\ UNCHANGED <<cfg, probe>>

ConcReply(r) ==
  /\ reqs[r].pc \notin {"idle", "done"}
  /\ \E reply \in ConcReplies(reqs[r].pc) :
       /\ reqs' = [reqs EXCEPT ![r] = Continued(reqs[r], reply)]
       /\ probe' = [probe EXCEPT !.replies[r] = Append(@, reply)]
  /\ UNCHANGED cfg

ConcClose(r) ==
  /\ reqs[r].pc = "done"
  /\ reqs' = [reqs EXCEPT ![r] = Idle]
  /\ probe' = [probe EXCEPT !.replies[r] = <<>>]
  /\ UNCHANGED cfg

NextConc == \E r \in Conc : ConcReceive(r) \/ ConcReply(r) \/ ConcClose(r)

\* the upstream of request 1 may never answer; the calls of every other
\* request complete or fail
SpecConc ==
  /\ InitConc
  /\ [][NextConc]_vars
  /\ \A r \in Conc \ {1} : WF_vars(ConcReply(r))

(***************************************************************************)
(* The plan normalizer applied to a plan list and to a permutation of it   *)
(***************************************************************************)
\* raw plans, two of them (planId 4 and 11) equal in volume, days and price
PermTemplates ==
  {RawPlan(1, Num(1), 7, 5, <<>>, <<>>),
   RawPlan(4, Num(5), 7, 20, <<>>, <<>>),
   RawPlan(11, Num(5), 7, 20, <<>>, <<>>),
   RawPlan(5, Str(<<"0">>), 1, 1, <<>>, <<>>),
   RawPlan(7, Str(<<"U", "n", "l", "i", "m", "i", "t", "e", "d">>), 7, 15, <<>>, <<>>)}

PermPlanLists == UNION {[1..n -> PermTemplates] : n \in 0..MaxPlans}

\* the permutations of 1..n
PermutationsOf(n) == {f \in [1..n -> 1..n] : \A i, j \in 1..n : f[i] = f[j] => i = j}

\* the answers of /plans-by-destination to a plan list and to the same
\* plans in another order
ProbePermuted ==
  /\ probe = NoProbe
  /\ \E raw \in PermPlanLists :
       \E f \in PermutationsOf(Len(raw)) :
         LET other == [i \in 1..Len(raw) |-> raw[f[i]]] IN
         probe' = [op |-> "permuted", raw |-> raw, other |-> other,
                   out |-> AfterPlansBody(AwaitingPlans, JsonText(JsonData(raw))).resp.body,
                   outOther |-> AfterPlansBody(AwaitingPlans, JsonText(JsonData(other))).resp.body]
  /\ UNCHANGED <<cfg, reqs>>

NextPermuted == ProbePermuted

SpecPermuted == InitProbe /\ [][NextPermuted]_vars

(***************************************************************************)
(* The identifier extractor applied to requests that carry candidates in   *)
(* one or two of the places pickIccid reads, under several bounds          *)
(***************************************************************************)
\* the places, in the order of the candidate list: 1 path parameter,
\* 2 query iccid, 3 query ICCID, 4 header x-iccid, 5 header x-iccid-number,
\* 6-9 body iccid, ICCID, value, number, 10-11 body.arguments iccid, ICCID,
\* 12-13 body.tool_input, 14-15 body.payload, 16-17 first element of an
\* array body
Sources == 1..17

ArraySources == {16, 17}

ObjectSources == 6..15

ObjectBodyOf(req) == IF req.body.t = "object" THEN req.body ELSE EmptyBody

NestedOf(b, k) == IF b[k].t = "object" THEN b[k] ELSE Nested(UNDEF, UNDEF)

FirstItemOf(req) ==
  IF req.body.t = "array" THEN req.body.items[1] ELSE [iccid |-> UNDEF, ICCID |-> UNDEF]

ArrayBody(item) == [t |-> "array", items |-> <<item>>]

\* the request req with the value v at place k
With(req, k, v) ==
  LET b == ObjectBodyOf(req)
      item == FirstItemOf(req)
      nested(f, g) == [req EXCEPT !.body = [b EXCEPT ![f] = [NestedOf(b, f) EXCEPT ![g] = v]]]
  IN CASE k = 1 -> [req EXCEPT !.params = v]
       [] k = 2 -> [req EXCEPT !.query.iccid = v]
       [] k = 3 -> [req EXCEPT !.query.ICCID = v]
       [] k = 4 -> [req EXCEPT !.headers.xiccid = v]
       [] k = 5 -> [req EXCEPT !.headers.xiccidnumber = v]
       [] k = 6 -> [req EXCEPT !.body = [b EXCEPT !.iccid = v]]
       [] k = 7 -> [req EXCEPT !.body = [b EXCEPT !.ICCID = v]]
       [] k = 8 -> [req EXCEPT !.body = [b EXCEPT !.value = v]]
       [] k = 9 -> [req EXCEPT !.body = [b EXCEPT !.number = v]]
       [] k = 10 -> nested("arguments", "iccid")
       [] k = 11 -> nested("arguments", "ICCID")
       [] k = 12 -> nested("tool_input", "iccid")
       [] k = 13 -> nested("tool_input", "ICCID")
       [] k = 14 -> nested("payload", "iccid")
       [] k = 15 -> nested("payload", "ICCID")
       [] k = 16 -> [req EXCEPT !.body = ArrayBody([item EXCEPT !.iccid = v])]
       [] k = 17 -> [req EXCEPT !.body = ArrayBody([item EXCEPT !.ICCID = v])]

\* a body is an object or an array, not both
Together(i, j) == ~(i \in ObjectSources /\ j \in ArraySources)

\* the bounds MIN_ICCID_LEN and MAX_ICCID_LEN are configured with: the
\* defaults, and bounds below, inside and above them
PickConfigs ==
  {Config(TRUE, TRUE, TRUE, DefaultMinLen, DefaultMaxLen),
   Config(TRUE, TRUE, TRUE, 15, 20),
   Config(TRUE, TRUE, TRUE, 10, 12),
   Config(TRUE, TRUE, TRUE, 20, 24)}

InitPick ==
  /\ cfg \in PickConfigs
  /\ reqs = [r \in Reqs |-> Idle]
  /\ probe = NoProbe

\* n digits other than Digits(n)
OtherDigits(n) == [i \in 1..n |-> DigitSeq[((i * 3) % 10) + 1]]

\* the values of a pair of places: identifiers of 19 and of 20 digits, one
\* written in groups of four, 5 digits, and text without digits
PairValues ==
  {Digits(19), OtherDigits(20), Spaced(OtherDigits(20), 4), Digits(5), <<"a", "b", "c">>}

\* pickIccid, and the route up to its fetch, for a request whose only
\* candidate is a string of n digits, plain or in groups, at one place
ProbeSingle ==
  /\ probe = NoProbe
  /\ \E k \in Sources, n \in 1..MaxDigits, g \in {MaxGroup, MaxDigits} :
       LET req == With(EmptyReq, k, Str(Spaced(Digits(n), g))) IN
       probe' = [op |-> "single", digits |-> Digits(n), req |-> req,
                 out |-> pickIccid(req, cfg),
                 slot |-> StartBalance(Arrived("balance", req), cfg)]
  /\ UNCHANGED <<cfg, reqs>>

\* pickIccid for a request with candidates at two places
ProbePair ==
  /\ probe = NoProbe
  /\ \E i, j \in Sources, v, w \in PairValues :
       /\ i < j
       /\ Together(i, j)
       /\ LET req == With(With(EmptyReq, i, Str(v)), j, Str(w)) IN
          probe' = [op |-> "pair", first |-> v, second |-> w,
                    places |-> <<i, j>>, req |-> req,
                    out |-> pickIccid(req, cfg),
                    slot |-> StartBalance(Arrived("balance", req), cfg)]
  /\ UNCHANGED <<cfg, reqs>>

NextPick == ProbeSingle \/ ProbePair

SpecPick == InitPick /\ [][NextPick]_vars

(***************************************************************************)
(* The label resolver on descriptions of several words                     *)
(***************************************************************************)
MaxWords == 3

\* the words of a description: two codes of the Country table, a code that
\* is in no table, a volume and a lower-case word
DescWords ==
  {<<"E", "S">>, <<"G", "R">>, <<"X", "X">>, <<"5", "G", "B">>, <<"o", "r">>}

\* the words of ws separated by single spaces
RECURSIVE JoinWords(_)
JoinWords(ws) ==
  IF ws = <<>> THEN <<>>
  ELSE IF Len(ws) = 1 THEN ws[1]
  ELSE ws[1] \o <<" ">> \o JoinWords(Tail(ws))

\* plan names that yield neither a region nor a country label: "",
\* "esim_1GB_7D" and "esim_XX"
UnlabelledPlanNames ==
  {<<>>, <<"e", "s", "i", "m", "_", "1", "G", "B", "_", "7", "D">>,
   <<"e", "s", "i", "m", "_", "X", "X">>}

\* extractRegionOrIso2Label for a plan name without a label and a
\* description of one to MaxWords words
ProbeDescription ==
  /\ probe = NoProbe
  /\ \E planName \in UnlabelledPlanNames, n \in 1..MaxWords :
       \E ws \in [1..n -> DescWords] :
         probe' = [op |-> "description", planName |-> Str(planName),
                   description |-> Str(JoinWords(ws)),
                   out |-> extractRegionOrIso2Label(Str(planName),
                                                    Str(JoinWords(ws)))]
  /\ UNCHANGED <<cfg, reqs>>

NextDescription == ProbeDescription

SpecDescription == InitProbe /\ [][NextDescription]_vars

(***************************************************************************)
(* The first revision of the server, src/server.js                         *)
(***************************************************************************)
\* the Country table of src/server.js: it spells RU "Rusia" and holds the
\* region code REUP
ISO2_COUNTRIES_serverjs ==
  (<<"R", "U">> :> "Rusia") @@ (<<"R", "E", "U", "P">> :> "Europe") @@ ISO2_COUNTRIES

REGION_CODES_serverjs ==
  <<"R", "E", "U", "P">> :> "Europe+" @@
  <<"E", "U", "R", "O">> :> "Europe" @@
  <<"A", "P", "A", "C">> :> "Asia Pacific" @@
  <<"L", "A", "T", "A", "M">> :> "Latin America" @@
  <<"M", "E", "N", "A">> :> "Middle East & North Africa" @@
  <<"G", "L", "O", "B", "A", "L">> :> "Global"

\* planName is a JavaScript value: .match on a value that is not a string
\* throws a TypeError
extractRegionOrIso2(planName) ==
  IF planName.t # "string"
  THEN [thrown |-> TRUE, type |-> "", code |-> <<>>, label |-> ""]
  ELSE LET regionMatch == TrailingCode(planName.s, 3, 5)
           m1 == TrailingCode(planName.s, 2, 2)
       IN IF regionMatch # NoMatch /\ regionMatch \in DOMAIN REGION_CODES_serverjs
          THEN [thrown |-> FALSE, type |-> "region", code |-> regionMatch,
                label |-> REGION_CODES_serverjs[regionMatch]]
          ELSE IF m1 # NoMatch /\ m1 \in DOMAIN ISO2_COUNTRIES_serverjs
          THEN [thrown |-> FALSE, type |-> "country", code |-> m1,
                label |-> ISO2_COUNTRIES_serverjs[m1]]
          ELSE [thrown |-> FALSE, type |-> "unknown", code |-> <<>>, label |-> ""]

\* String(body.iccid || query.iccid || headers["x-iccid"] || "").trim()
pickIccid_serverjs(req) ==
  LET fromBody == IF req.body.t = "object" THEN req.body.iccid ELSE UNDEF IN
  Trim(JsString(Or(fromBody, Or(req.query.iccid, Or(req.headers.xiccid, Str(<<>>))))))

\* a?.name || b?.name || "" for the parsed usage body
planName_serverjs(data) ==
  LET b == IF data.t = "object" /\ Len(data.bundles) > 0
           THEN data.bundles[1] ELSE EmptyObject
      a == IF Len(b.assignments) > 0 THEN b.assignments[1] ELSE EmptyObject
  IN Or(a.name, Or(b.name, Str(<<>>)))

\* the names the try block of the /balance-clean handler declares with
\* const, in source order
TryBlockConsts_serverjs ==
  <<"iccid", "url", "r", "text", "data", "b", "a", "planName", "description",
    "regionOrCountry", "country", "initialBytes", "remainingBytes",
    "codeFromName", "codeFromDesc", "iso2", "country", "out">>

\* a block that declares one name twice with const is an early SyntaxError:
\* the module is rejected before any of its statements runs
EarlyError_serverjs ==
  \E i, j \in 1..Len(TryBlockConsts_serverjs) :
    i < j /\ TryBlockConsts_serverjs[i] = TryBlockConsts_serverjs[j]

\* the handler of /balance-clean for a request and the reply of its fetch.
\* After extractRegionOrIso2 it calls extractIso2FromName, which no
\* statement of the module declares: the call throws a ReferenceError that
\* the catch block answers
balanceClean_serverjs(req, reply, key) ==
  IF ~key THEN Response(500, ErrorBody("config_error"))
  ELSE IF pickIccid_serverjs(req) = <<>> THEN Response(400, ErrorBody("missing iccid"))
  ELSE IF reply.net THEN Response(500, ErrorBody("proxy_error"))
  ELSE IF ~Ok(reply) THEN Response(reply.status, TextBody(reply.text))
  ELSE IF ~reply.text.valid THEN Response(500, ErrorBody("proxy_error"))
  ELSE IF extractRegionOrIso2(planName_serverjs(reply.text.json)).thrown
  THEN Response(500, ErrorBody("proxy_error"))
  ELSE Response(500, ErrorBody("proxy_error"))

\* what a client gets from a port nobody listens on
ConnectionRefused == Response(0, NONE)

\* the requests sent to /balance-clean of src/server.js: no identifier, an
\* identifier in the query string, the body or the header, and blanks
Reqs_serverjs ==
  {EmptyReq,
   [EmptyReq EXCEPT !.query.iccid = Str(Digits(19))],
   [EmptyReq EXCEPT !.query.iccid = Str(SpacedExample)],
   [EmptyReq EXCEPT !.query.iccid = Str(<<" ", " ">>)],
   [EmptyReq EXCEPT !.headers.xiccid = Str(<<"a", "b", "c">>)],
   [EmptyReq EXCEPT !.body = [EmptyBody EXCEPT !.iccid = Str(Digits(20))]]}

Init_serverjs ==
  /\ cfg \in {DefaultConfig,
              Config(FALSE, TRUE, TRUE, DefaultMinLen, DefaultMaxLen)}
  /\ reqs = [r \in Reqs |-> Idle]
  /\ probe = [op |-> "server.js", phase |-> "start"]

\* node src/server.js: the module is parsed, and listens when it has no
\* early error
NodeLoads ==
  /\ probe.phase = "start"
  /\ probe' = [op |-> "server.js",
               phase |-> IF EarlyError_serverjs THEN "exited" ELSE "listening"]
  /\ UNCHANGED <<cfg, reqs>>

\* a client sends a request to /balance-clean; reply is what the usage API
\* answers for its identifier
ClientCalls ==
  /\ probe.phase \in {"exited", "listening"}
  /\ \E req \in Reqs_serverjs, reply \in UsageReplies :
       probe' = [op |-> "server.js", phase |-> "called", req |-> req,
                 upstream |-> reply,
                 out |-> IF probe.phase = "listening"
                         THEN balanceClean_serverjs(req, reply, cfg.key)
                         ELSE ConnectionRefused]
  /\ UNCHANGED <<cfg, reqs>>

Next_serverjs == NodeLoads \/ ClientCalls

Spec_serverjs == Init_serverjs /\ [][Next_serverjs]_vars

(***************************************************************************)
(* Properties of the routes                                                *)
(***************************************************************************)
BalanceRoutes == {"balance", "balance-clean"}

PlansRoute == "plans-by-destination"

CoverageUrls == {"coverage", "coverage.php"}

PlansUrls == {"country-plans", "country-plans.php"}

LastCallUrl(s) == s.calls[Len(s.calls)].url

Answered(s, status, body) == s.pc = "done" /\ s.resp = Response(status, body)

\* the request carries no identifier anywhere
NoIdentifier(req) ==
  \A i \in 1..Len(Candidates(req)) : ~Truthy(Candidates(req)[i])

\* a digit string whose length lies within [MIN_ICCID_LEN, MAX_ICCID_LEN]
ValidIccid(id, c) == AllDigits(id) /\ Len(id) >= c.minLen /\ Len(id) <= c.maxLen

\* the handler of s has resumed with a successful reply to its coverage
\* lookup (primary or fallback) and has handled it
CoverageSettled(s) ==
  /\ s.route = PlansRoute
  /\ s.calls # <<>>
  /\ \/ s.pc = "done" /\ LastCallUrl(s) \in CoverageUrls
     \/ s.pc = "country-plans"
  /\ ~s.last.net
  /\ Ok(s.last)

\* the handler of s has resumed with a successful reply to its plan lookup
\* (primary or fallback) and has handled it
PlansSettled(s) ==
  /\ s.route = PlansRoute
  /\ s.pc = "done"
  /\ s.calls # <<>>
  /\ LastCallUrl(s) \in PlansUrls
  /\ ~s.last.net
  /\ Ok(s.last)

\* C1 as stated: handling one inbound request issues at most two outbound
\* HTTP calls, on every route and for every combination of upstream outcomes.
C1_AtMostTwoCalls == \A r \in Reqs : Len(reqs[r].calls) <= 2

\* C1 amended: one request issues at most four outbound calls on
\* /plans-by-destination (the coverage lookup and the plan lookup, each with
\* at most one .php fallback, no URL called twice) and at most one on
\* /balance and /balance-clean.
C1_CallBound ==
  \A r \in Reqs :
    LET s == reqs[r] IN
    /\ Len(s.calls) <= (IF s.route = PlansRoute THEN 4
                        ELSE IF s.route \in BalanceRoutes THEN 1 ELSE 0)
    /\ \A i, j \in 1..Len(s.calls) : s.calls[i].url = s.calls[j].url => i = j

C1_FourCalls ==
  \E r \in Reqs : reqs[r].pc = "done" /\ Len(reqs[r].calls) = 4

\* C2: with the usage API key configured, /balance and /balance-clean issue
\* the usage call only with an identifier made of digits whose length lies
\* within [MIN_ICCID_LEN, MAX_ICCID_LEN]; whenever extraction yields no such
\* identifier (also when the request carries no identifier at all) the
\* response is 400 missing_or_invalid_iccid and no outbound call is made.
C2_UsageCallOnlyWithValidIccid ==
  \A r \in Reqs :
    LET s == reqs[r] IN
    (s.route \in BalanceRoutes /\ cfg.key) =>
      /\ \A i \in 1..Len(s.calls) :
           s.calls[i].url = "usage" /\ ValidIccid(s.calls[i].arg, cfg)
      /\ (~ValidIccid(pickIccid(s.req, cfg), cfg) \/ NoIdentifier(s.req)) =>
           /\ Answered(s, 400, ErrorBody("missing_or_invalid_iccid"))
           /\ s.calls = <<>>

C2_ExtractedButRejected ==
  \E r \in Reqs :
    /\ reqs[r].route \in BalanceRoutes
    /\ cfg.key
    /\ pickIccid(reqs[r].req, cfg) # <<>>
    /\ Answered(reqs[r], 400, ErrorBody("missing_or_invalid_iccid"))
    /\ reqs[r].calls = <<>>

\* C3: with the usage API key unset, /balance and /balance-clean answer every
\* request, also one without a valid identifier, with 500 config_error and
\* make no outbound call; with the email or the password unset,
\* /plans-by-destination answers 500 config_error and makes no outbound call.
C3_ConfigError ==
  \A r \in Reqs :
    LET s == reqs[r] IN
    /\ (s.route \in BalanceRoutes /\ ~cfg.key) =>
         Answered(s, 500, ErrorBody("config_error")) /\ s.calls = <<>>
    /\ (s.route = PlansRoute /\ (~cfg.email \/ ~cfg.password)) =>
         Answered(s, 500, ErrorBody("config_error")) /\ s.calls = <<>>

C3_NoKeyNoIdentifier ==
  \E r \in Reqs :
    /\ reqs[r].route \in BalanceRoutes
    /\ ~cfg.key
    /\ NoIdentifier(reqs[r].req)
    /\ Answered(reqs[r], 500, ErrorBody("config_error"))

\* C4 as stated: when the coverage (plans) upstream answers with a success
\* status and a body that is not valid JSON or is JSON without a Data array,
\* the response is 502 bad_coverage_payload (bad_plans_payload).
C4_BadPayloadOrShape ==
  \A r \in Reqs :
    LET s == reqs[r] IN
    /\ (CoverageSettled(s) /\ (~s.last.text.valid \/ ~HasDataArray(s.last.text.json))) =>
         Answered(s, 502, ErrorBody("bad_coverage_payload"))
    /\ (PlansSettled(s) /\ (~s.last.text.valid \/ ~HasDataArray(s.last.text.json))) =>
         Answered(s, 502, ErrorBody("bad_plans_payload"))

\* C4 amended: a success body that is not valid JSON gives 502
\* bad_coverage_payload (bad_plans_payload); a success body that is valid
\* JSON without a Data array is read as an empty list: the coverage lookup
\* then answers 404 not_found with no suggestions, the plan lookup answers
\* 200 with totalPlans 0 and no plans.
C4_BadPayload ==
  \A r \in Reqs :
    LET s == reqs[r] IN
    /\ (CoverageSettled(s) /\ ~s.last.text.valid) =>
         Answered(s, 502, ErrorBody("bad_coverage_payload"))
    /\ (CoverageSettled(s) /\ s.last.text.valid /\ ~HasDataArray(s.last.text.json)) =>
         Answered(s, 404, [kind |-> "error", error |-> "not_found",
                           suggestions |-> <<>>])
    /\ (PlansSettled(s) /\ ~s.last.text.valid) =>
         Answered(s, 502, ErrorBody("bad_plans_payload"))
    /\ (PlansSettled(s) /\ s.last.text.valid /\ ~HasDataArray(s.last.text.json)) =>
         /\ s.resp.status = 200
         /\ s.resp.body.kind = "plans"
         /\ s.resp.body.totalPlans = 0
         /\ s.resp.body.plans = <<>>

C4_InvalidJsonCoverage ==
  \E r \in Reqs :
    /\ CoverageSettled(reqs[r])
    /\ ~reqs[r].last.text.valid
    /\ reqs[r].resp.status = 502

\* no matching strategy selects a record of list: no normalized country
\* name equals the phrase or one of its Europe synonyms or contains the
\* phrase, and no ISO2 code equals it
NoStrategySelects(dest, list) ==
  LET want == normalizeDestination(dest) IN
  \A i \in 1..Len(list) :
    LET country == normalizeDestination(list[i].country) IN
    /\ country # want
    /\ \A k \in 1..Len(Variants(want)) : country # Variants(want)[k]
    /\ ~Includes(country, want)
    /\ normalizeDestination(list[i].iso2) # want

\* C5: when no matching strategy selects a coverage record, the response is
\* 404 not_found whose suggestions are the country names of the first
\* min(10, list length) coverage records in list order, and no plan lookup is
\* issued for that request.
C5_NotFoundSuggestions ==
  \A r \in Reqs :
    LET s == reqs[r] IN
    (CoverageSettled(s) /\ s.last.text.valid) =>
      LET list == DataList(s.last.text.json) IN
      NoStrategySelects(s.loc.destination, list) =>
        /\ Answered(s, 404,
             [kind |-> "error", error |-> "not_found",
              suggestions |-> [i \in 1..Min2(10, Len(list)) |-> list[i].country]])
        /\ \A i \in 1..Len(s.calls) : s.calls[i].url \notin PlansUrls

C5_TenOfMore ==
  \E r \in Reqs :
    /\ CoverageSettled(reqs[r])
    /\ reqs[r].last.text.valid
    /\ Len(DataList(reqs[r].last.text.json)) > 10
    /\ reqs[r].pc = "done"
    /\ reqs[r].resp.status = 404
    /\ Len(reqs[r].resp.body.suggestions) = 10

\* C6: /balance answers with exactly the upstream status and body text, for
\* success and non-success statuses alike; /balance-clean echoes the upstream
\* status and body whenever the upstream status is non-success.
C6_Passthrough ==
  \A r \in Reqs :
    LET s == reqs[r] IN
    (s.route \in BalanceRoutes /\ s.pc = "done" /\ s.calls # <<>> /\ ~s.last.net) =>
      /\ s.route = "balance" => s.resp = Response(s.last.status, TextBody(s.last.text))
      /\ (s.route = "balance-clean" /\ ~Ok(s.last)) =>
           s.resp = Response(s.last.status, TextBody(s.last.text))

C6_SuccessPassedThrough ==
  \E r \in Reqs :
    /\ reqs[r].route = "balance"
    /\ reqs[r].pc = "done"
    /\ reqs[r].calls # <<>>
    /\ ~reqs[r].last.net
    /\ Ok(reqs[r].last)
    /\ reqs[r].resp = Response(200, TextBody(reqs[r].last.text))

(***************************************************************************)
(* Properties of the label resolver, the identifier extractor and the      *)
(* plan normalizer                                                         *)
(***************************************************************************)
\* C7: for every code R of the Region table, a plan name ending in _R, with
\* or without a version suffix, resolves to the Region table's label for R,
\* whatever ISO2 code the name holds and whatever the description is.
C7_RegionSuffixResolves ==
  (probe.op = "label" /\ probe.code \in DOMAIN REGION_CODES) =>
    probe.out = Returned(REGION_CODES[probe.code])

\* C8: for a trailing code that is no region code, a 2-letter code of the
\* Country table resolves to its label, a code in neither table resolves to
\* the empty string, and label resolution never throws, whatever plan name
\* and description the upstream supplies.
C8_CountryOrEmptyNeverThrows ==
  probe.op = "label" =>
    /\ ~probe.out.thrown
    /\ probe.code \in DOMAIN ISO2_COUNTRIES =>
         probe.out.label = ISO2_COUNTRIES[probe.code]
    /\ probe.code \in UnknownCodes => probe.out.label = ""

\* the request of the probe is accepted: the route issues its usage call
\* with the identifier id
Accepted(slot, id) ==
  slot.pc = "usage" /\ slot.calls = <<[url |-> "usage", arg |-> id]>>

DefaultBounds == cfg.minLen = DefaultMinLen /\ cfg.maxLen = DefaultMaxLen

FiniteVolume(p) == isFinite(p.gbsNum)

SameVolume(p, q) ==
  \/ FiniteVolume(p) /\ FiniteVolume(q) /\ p.gbsNum.n = q.gbsNum.n
  \/ p.isUnlimited /\ q.isUnlimited

\* C10: the plans list is ordered ascending by numeric data volume, every
\* unlimited plan (a raw plan with GBs "0" or 0 is one) comes after every
\* plan with a positive finite data volume whatever the prices, and plans
\* equal on data volume are ordered by ascending validity days, then by
\* ascending retail price.
C10_PlansOrdered ==
  probe.op = "plans" =>
    LET plans == probe.out.plans IN
    /\ \A i, j \in 1..Len(plans) :
         i < j =>
           /\ (FiniteVolume(plans[i]) /\ FiniteVolume(plans[j])) =>
                plans[i].gbsNum.n <= plans[j].gbsNum.n
           /\ ~(plans[i].isUnlimited /\ FiniteVolume(plans[j]) /\ plans[j].gbsNum.n > 0)
           /\ SameVolume(plans[i], plans[j]) =>
                \/ plans[i].Validity_Days < plans[j].Validity_Days
                \/ /\ plans[i].Validity_Days = plans[j].Validity_Days
                   /\ plans[i].retailRate <= plans[j].retailRate
    /\ \A k \in 1..Len(probe.raw) :
         probe.raw[k].GBs \in {Str(<<"0">>), Num(0)} =>
           \A i \in 1..Len(plans) :
             plans[i].planId = probe.raw[k].planId => plans[i].isUnlimited

C10_CheapZeroPlanLast ==
  /\ probe.op = "plans"
  /\ Len(probe.raw) = 3
  /\ probe.raw[1].GBs = Str(<<"0">>)
  /\ LET plans == probe.out.plans IN
     /\ FiniteVolume(plans[1]) /\ plans[1].gbsNum.n > 0
     /\ FiniteVolume(plans[2]) /\ plans[2].gbsNum.n > plans[1].gbsNum.n
     /\ plans[3].isUnlimited
     /\ plans[3].planId = probe.raw[1].planId
     /\ plans[3].retailRate < plans[1].retailRate

(***************************************************************************)
(* Properties of the limit and the summaries of /plans-by-destination      *)
(***************************************************************************)
\* the limit a request carries, in its query string or its body
SentLimit(req) ==
  IF req.query.limit # UNDEF THEN req.query.limit
  ELSE IF req.body.t = "object" THEN req.body.limit
  ELSE UNDEF

\* the value is a positive integer, as a number or as a decimal numeral
PositiveInteger(v) ==
  \/ v.t = "number" /\ v.n > 0
  \/ v.t = "string" /\ AllDigits(v.s) /\ DigitsValue(v.s) > 0

IntegerOf(v) == IF v.t = "number" THEN v.n ELSE DigitsValue(v.s)

\* the entry of a summary that speaks the plan p
EntryOf(p) ==
  [gbPart |-> IF p.isUnlimited THEN UnlimitedGBs ELSE p.GBs,
   days |-> p.Validity_Days, rate |-> p.retailRate]

\* the summary text holds exactly the first k plans of the answer
FirstEntries(text, plans, k) ==
  /\ Len(text) = k
  /\ \A i \in 1..k : text[i] = EntryOf(plans[i])

\* C11: with N normalized plans, topText consists of exactly min(L, 50, N)
\* entries taken from the front of the ordered list when the requested limit
\* L is a positive integer, and of min(10, N) when the limit is absent, zero,
\* negative or non-numeric; top3Text consists of exactly min(3, N) entries;
\* plans holds all N plans whatever the limit.
C11_TopTextEntries ==
  probe.op = "limit" =>
    LET out == probe.slot.resp.body
        N == Len(probe.raw)
        v == SentLimit(probe.req)
        L == IF PositiveInteger(v) THEN Min2(IntegerOf(v), 50) ELSE 10
    IN /\ probe.slot.pc = "done"
       /\ probe.slot.resp.status = 200
       /\ out.totalPlans = N
       /\ Len(out.plans) = N
       /\ FirstEntries(out.topText, out.plans, Min2(L, N))
       /\ FirstEntries(out.top3Text, out.plans, Min2(3, N))

\* the spec's example: limit 3 with raw GB values 5, "Unlimited", 1 gives
\* plans ordered 1 GB, 5 GB, Unlimited and a topText of 3 entries
C11_ExampleLimitThree ==
  /\ probe.op = "limit"
  /\ SentLimit(probe.req) = Num(3)
  /\ probe.raw = ExamplePlans
  /\ LET out == probe.slot.resp.body IN
     /\ out.plans[1].GBs = Fin(1)
     /\ out.plans[2].GBs = Fin(5)
     /\ out.plans[3].GBs = UnlimitedGBs
     /\ Len(out.topText) = 3

(***************************************************************************)
(* Properties of the destination matcher                                   *)
(***************************************************************************)
EuropeSynonyms == {sEurope, sEu, sEuPlus}

\* the records of list that each strategy finds for the phrase dest
ExactHits(dest, list) ==
  {i \in 1..Len(list) :
     normalizeDestination(list[i].country) = normalizeDestination(dest)}

SynonymHits(dest, list) ==
  {i \in 1..Len(list) :
     /\ normalizeDestination(dest) \in EuropeSynonyms
     /\ normalizeDestination(list[i].country) \in EuropeSynonyms}

SubstringHits(dest, list) ==
  {i \in 1..Len(list) :
     Includes(normalizeDestination(list[i].country), normalizeDestination(dest))}

Iso2Hits(dest, list) ==
  {i \in 1..Len(list) :
     normalizeDestination(list[i].iso2) = normalizeDestination(dest)}

\* C12: pickCoverageRecord returns a record found by the first strategy that
\* succeeds, in the order exact country name, Europe synonym, substring of a
\* country name, ISO2 code, and null when none succeeds; "spai" selects
\* Spain through the substring stage, and "EU" selects the record EU+ at the
\* synonym stage whatever the substring and ISO2 stages would find.
C12_FirstStrategyWins ==
  probe.op = "coverage" =>
    LET exact == ExactHits(probe.dest, probe.list)
        synonym == SynonymHits(probe.dest, probe.list)
        substring == SubstringHits(probe.dest, probe.list)
        iso2 == Iso2Hits(probe.dest, probe.list)
    IN /\ IF exact # {} THEN probe.out \in exact
          ELSE IF synonym # {} THEN probe.out \in synonym
          ELSE IF substring # {} THEN probe.out \in substring
          ELSE IF iso2 # {} THEN probe.out \in iso2
          ELSE probe.out = 0
       /\ (probe.dest = sSpai /\ substring # {}) =>
            probe.list[probe.out].iso2 = <<"E", "S">>
       /\ (probe.dest = sEU /\ \E i \in synonym : probe.list[i].country = <<"E", "U", "+">>) =>
            probe.list[probe.out].country = <<"E", "U", "+">>

\* "EU" selects EU+ although an earlier record, Reunion, contains "eu"
C12_SynonymBeforeSubstring ==
  /\ probe.op = "coverage"
  /\ probe.dest = sEU
  /\ Len(probe.list) = 2
  /\ probe.list[1].country = <<"R", "e", "u", "n", "i", "o", "n">>
  /\ probe.list[2].country = <<"E", "U", "+">>
  /\ 1 \in SubstringHits(probe.dest, probe.list)
  /\ probe.out = 2

(***************************************************************************)
(* Properties of the usage figures of /balance-clean                       *)
(***************************************************************************)
\* /balance-clean has answered 200 to a success reply of the usage API
\* whose body is valid JSON
UsageAnswered(s) ==
  /\ s.route = "balance-clean"
  /\ s.pc = "done"
  /\ s.calls # <<>>
  /\ ~s.last.net
  /\ Ok(s.last)
  /\ s.last.text.valid
  /\ s.resp.status = 200

\* the assignments of the first bundle of a usage body
FirstBundleAssignments(json) ==
  IF json.t = "object" /\ json.bundles # <<>> THEN json.bundles[1].assignments ELSE <<>>

\* the byte count, in units of 10^6 bytes, of the first assignment of the
\* first bundle: its quantity field when present, else the amount field of
\* its first allowance, else 0
ByteCount(json, quantity, amount) ==
  LET as == FirstBundleAssignments(json) IN
  IF as = <<>> THEN 0
  ELSE IF as[1][quantity] # UNDEF THEN as[1][quantity].n
  ELSE IF as[1].allowances # <<>> /\ as[1].allowances[1][amount] # UNDEF
  THEN as[1].allowances[1][amount].n
  ELSE 0

\* gb, in hundredths of a GB, is bytes / 10^9 rounded to 2 decimal places:
\* no hundredth is nearer to the quotient
RoundedGB(gb, bytes) == gb * 10 - bytes <= 5 /\ bytes - gb * 10 <= 5

\* C13: on /balance-clean with an upstream success response, initialGB and
\* remainingGB are the byte counts divided by 10^9 and rounded to 2 decimal
\* places (5000000000 and 1250000000 give 5.00 and 1.25), the byte count
\* being the initialQuantity / remainingQuantity of the first assignment of
\* the first bundle when present, else the initialAmount / remainingAmount
\* of its first allowance, else 0.
C13_GigabytesRounded ==
  \A r \in Reqs :
    LET s == reqs[r] IN
    UsageAnswered(s) =>
      LET json == s.last.text.json
          initial == ByteCount(json, "initialQuantity", "initialAmount")
          remaining == ByteCount(json, "remainingQuantity", "remainingAmount")
      IN /\ RoundedGB(s.resp.body.initialGB, initial)
         /\ RoundedGB(s.resp.body.remainingGB, remaining)
         /\ (initial = 5000 /\ remaining = 1250) =>
              s.resp.body.initialGB = 500 /\ s.resp.body.remainingGB = 125

\* the amounts of the first allowance are used when the assignment has no
\* quantity fields: 3000000000 and 1005000000 bytes give 3.00 and 1.00
C13_AllowanceBackOff ==
  \E r \in Reqs :
    /\ UsageAnswered(reqs[r])
    /\ reqs[r].last.text.json = UsageAllowances
    /\ reqs[r].resp.body.initialGB = 300
    /\ reqs[r].resp.body.remainingGB = 100

(***************************************************************************)
(* Properties of the fallback URLs                                         *)
(***************************************************************************)
\* the outbound call to url is issued in the step from slot state s to t
Calls(s, t, url) ==
  /\ Len(t.calls) = Len(s.calls) + 1
  /\ LastCallUrl(t) = url

\* the handler resumes in the step from s to t with a non-success status
ResumedWithFailure(s, t) == s.pc # t.pc /\ ~t.last.net /\ ~Ok(t.last)

\* the lookup with the given primary and fallback URL, in the step of one
\* request from slot state s to t
FallbackRule(s, t, primary, fallback) ==
  /\ (s.pc = primary /\ t.pc # primary) =>
       (Calls(s, t, fallback) <=> ResumedWithFailure(s, t))
  /\ Calls(s, t, fallback) =>
       /\ s.pc = primary
       /\ \A i \in 1..Len(s.calls) : s.calls[i].url # fallback
  /\ (s.pc = fallback /\ ResumedWithFailure(s, t)) =>
       /\ t.pc = "done"
       /\ t.resp = Response(t.last.status, TextBody(t.last.text))
       /\ t.calls = s.calls

\* C14: for the coverage lookup and for the plan lookup, the .php fallback
\* URL is called exactly when the primary call returned a non-success status:
\* never after a successful primary call, at most once per lookup, and when
\* the fallback returns non-success too the request ends with the fallback's
\* status and body and no further outbound call.
C14_FallbackExactlyOnFailure ==
  [][\A r \in Reqs :
       /\ FallbackRule(reqs[r], reqs'[r], "coverage", "coverage.php")
       /\ FallbackRule(reqs[r], reqs'[r], "country-plans", "country-plans.php")]_vars

\* the coverage fallback failed too: the request ended with its status and
\* body after two calls
C14_FallbackFailedToo ==
  \E r \in Reqs :
    LET s == reqs[r] IN
    /\ s.pc = "done"
    /\ Len(s.calls) = 2
    /\ LastCallUrl(s) = "coverage.php"
    /\ ~s.last.net
    /\ ~Ok(s.last)
    /\ s.resp = Response(s.last.status, TextBody(s.last.text))

(***************************************************************************)
(* Properties of error handling                                            *)
(***************************************************************************)
AwaitedUrls == {"usage"} \cup CoverageUrls \cup PlansUrls

\* the handler of s has resumed from a call that failed on the network, or
\* with a success reply whose handling throws: on /balance-clean a body that
\* is not valid JSON or whose plan name is a number, on the plan lookup a
\* list with a null record
HandlingThrew(s) ==
  /\ s.calls # <<>>
  /\ s.pc \notin AwaitedUrls
  /\ \/ s.last.net
     \/ /\ s.route = "balance-clean"
        /\ Ok(s.last)
        /\ (~s.last.text.valid \/ s.last.text.json = UsageNumericName)
     \/ /\ PlansSettled(s)
        /\ s.last.text.valid
        /\ \E i \in 1..Len(DataList(s.last.text.json)) :
             DataList(s.last.text.json)[i] = JsonNull

\* a request is suspended at an outbound call without a response, or is
\* over with one
OneResponse(s) ==
  /\ s.pc \in AwaitedUrls => s.resp = NONE
  /\ s.pc = "done" => s.resp # NONE /\ s.resp.status \in 200..599
  /\ s.pc \in AwaitedUrls \cup {"done", "idle"}

\* C15: on every route a network failure of an outbound call, or an exception
\* thrown while handling the request, yields 500 proxy_error; every request
\* whose outbound calls all complete or fail receives exactly one response,
\* which is never replaced, and its slot serves later requests again.
C15_ErrorsBecomeProxyError ==
  /\ [](\A r \in DOMAIN reqs :
          /\ HandlingThrew(reqs[r]) => Answered(reqs[r], 500, ErrorBody("proxy_error"))
          /\ OneResponse(reqs[r]))
  /\ [][\A r \in DOMAIN reqs :
          reqs[r].resp # NONE => (reqs'[r] = reqs[r] \/ reqs'[r] = Idle)]_vars
  /\ \A r \in OneAtATime : (reqs[r].pc \in AwaitedUrls) ~> (reqs[r].pc = "done")
  /\ \A r \in OneAtATime : (reqs[r].pc = "done") ~> (reqs[r].pc = "idle")

\* a success-status usage body on /balance-clean that is not valid JSON
C15_InvalidUsageBody ==
  \E r \in DOMAIN reqs :
    /\ reqs[r].route = "balance-clean"
    /\ HandlingThrew(reqs[r])
    /\ ~reqs[r].last.net
    /\ ~reqs[r].last.text.valid
    /\ Answered(reqs[r], 500, ErrorBody("proxy_error"))

(***************************************************************************)
(* Properties of concurrent requests                                       *)
(***************************************************************************)
RECURSIVE Replayed(_, _)
\* the handler in slot state s resumed with the replies, one after another
Replayed(s, replies) ==
  IF replies = <<>> THEN s
  ELSE Replayed(Continued(s, Head(replies)), Tail(replies))

\* the slot state of a request handled alone: its handler run on its own
\* input and resumed with its own upstream replies
HandledAlone(route, req, replies) == Replayed(Started(route, req, cfg), replies)

C17_OrderIsFunctionOfSet ==
  probe.op = "permuted" =>
    /\ probe.out.plans = probe.outOther.plans
    /\ probe.out.topText = probe.outOther.topText
    /\ probe.out.top3Text = probe.outOther.top3Text
    /\ probe.out.totalPlans = Len(probe.raw)
    /\ probe.outOther.totalPlans = Len(probe.raw)

(***************************************************************************)
(* Properties of the identifier extractor under configured bounds          *)
(***************************************************************************)
PickProbed == probe.op \in {"single", "pair"}

\* C18: pickIccid returns either the empty string or a validated
\* identifier, a digit string whose length lies within [MIN_ICCID_LEN,
\* MAX_ICCID_LEN]; it never returns a non-empty identifier that violates the
\* length bound, also when the result comes from the last-resort step.
C18_EmptyOrValidated ==
  PickProbed => (probe.out = <<>> \/ ValidIccid(probe.out, cfg))

\* the route answers 400 missing_or_invalid_iccid without an outbound call
Rejected(slot) ==
  Answered(slot, 400, ErrorBody("missing_or_invalid_iccid")) /\ slot.calls = <<>>

\* C19: for any configured bounds min <= max and a request carrying a single
\* candidate value, the candidate is accepted if and only if the number L of
\* digits it contains satisfies min <= L <= max, and the accepted identifier
\* is then the candidate's complete digits-only string; a candidate with
\* fewer than min or more than max digits is rejected.
C19_AcceptedIffWithinBounds ==
  probe.op = "single" =>
    LET L == Len(probe.digits) IN
    IF cfg.minLen <= L /\ L <= cfg.maxLen
    THEN probe.out = probe.digits /\ Accepted(probe.slot, probe.digits)
    ELSE Rejected(probe.slot)

\* the value at place k of the probed pair, sanitized
CleanedAt(k) == sanitizeIccid(Str(IF k = 1 THEN probe.first ELSE probe.second))

\* the sanitized value at place k satisfies the length bound
QualifiesAt(k) == CleanedAt(k) # <<>> /\ isIccidLengthOK(CleanedAt(k), cfg)

\* C20: pickIccid examines the candidates in the order path parameter, query
\* iccid, query ICCID, header x-iccid, header x-iccid-number, then the body
\* fields (iccid, ICCID, value, number, then arguments, tool_input, payload,
\* first array element) and returns the first candidate in that order whose
\* sanitized value satisfies the length bound: of two places that carry
\* different valid identifiers the earlier one wins.
C20_EarliestSourceWins ==
  probe.op = "pair" =>
    /\ QualifiesAt(1) => probe.out = CleanedAt(1)
    /\ (~QualifiesAt(1) /\ QualifiesAt(2)) => probe.out = CleanedAt(2)
    /\ (QualifiesAt(1) \/ QualifiesAt(2)) => Accepted(probe.slot, probe.out)

\* a valid identifier in the header x-iccid-number and a different valid one
\* in the body field payload.ICCID: the header wins
C20_HeaderBeforeBody ==
  /\ probe.op = "pair"
  /\ probe.places = <<5, 15>>
  /\ QualifiesAt(1)
  /\ QualifiesAt(2)
  /\ CleanedAt(1) # CleanedAt(2)
  /\ probe.req.headers.xiccidnumber = Str(probe.first)
  /\ probe.req.body.payload.ICCID = Str(probe.second)
  /\ probe.out = CleanedAt(1)

(***************************************************************************)
(* Properties of the order of the two lookups                              *)
(***************************************************************************)
\* the records of list that some matching strategy finds for the phrase
SelectableRecords(dest, list) ==
  ExactHits(dest, list) \cup SynonymHits(dest, list)
  \cup SubstringHits(dest, list) \cup Iso2Hits(dest, list)

\* the plan lookup issued in the step from s to t follows a coverage reply
\* with a success status and a body that parsed, and asks for the iso2 of
\* the record selected from that body
PlanLookupFollowsCoverage(s, t) ==
  Calls(s, t, "country-plans") =>
    /\ s.pc \in CoverageUrls
    /\ ~t.last.net
    /\ Ok(t.last)
    /\ t.last.text.valid
    /\ LET list == DataList(t.last.text.json)
           rec == pickCoverageRecord(t.loc.destination, list)
       IN /\ rec \in SelectableRecords(t.loc.destination, list)
          /\ t.loc.label = list[rec].country
          /\ t.calls[Len(t.calls)].arg = list[rec].iso2

\* the calls of one request are issued one after another: only the last one
\* can be in flight, no coverage call follows a plan call, and the fallback
\* plan lookup asks for the same iso2 as the primary one
LookupsInSequence(s) ==
  /\ s.pc \in AwaitedUrls => s.calls # <<>> /\ LastCallUrl(s) = s.pc
  /\ \A i, j \in 1..Len(s.calls) :
       (i < j /\ s.calls[i].url \in PlansUrls) =>
         /\ s.calls[j].url \in PlansUrls
         /\ s.calls[j].arg = s.calls[i].arg
  /\ \A j \in 1..Len(s.calls) :
       s.calls[j].url \in PlansUrls => (j > 1 /\ s.calls[1].url = "coverage")

\* C21: the plan lookup is issued only after the coverage lookup of the same
\* request has completed with a success status, its body has parsed and a
\* coverage record has been selected; its iso2_country parameter is the
\* iso2 of exactly that record; the coverage and plan lookups of one request
\* are never in flight at the same time.
C21_PlansAfterCoverage ==
  /\ [](\A r \in Reqs : LookupsInSequence(reqs[r]))
  /\ [][\A r \in Reqs : PlanLookupFollowsCoverage(reqs[r], reqs'[r])]_vars

\* the plan lookup for iso2 "EU" follows a coverage lookup that succeeded at
\* the fallback URL and selected the record EU+
C21_PlansAfterFallbackCoverage ==
  \E r \in Reqs :
    LET s == reqs[r] IN
    /\ s.pc = "country-plans"
    /\ Len(s.calls) = 3
    /\ s.calls[2].url = "coverage.php"
    /\ s.loc.label = <<"E", "U", "+">>
    /\ s.calls[3].arg = <<"E", "U">>

(***************************************************************************)
(* Properties of the description sniff                                     *)
(***************************************************************************)
\* the isolated 2-letter uppercase tokens of s that the Country table holds
CountryTokens(s) ==
  {SubSeq(s, t, t + 1) : t \in {u \in 1..Len(s) : DescTokenAt(s, u)}}
  \cap DOMAIN ISO2_COUNTRIES

\* the plan name yields neither a region label nor a country label
NameYieldsNoLabel(planName) ==
  /\ TrailingCode(planName, 3, 5) \notin DOMAIN REGION_CODES
  /\ TrailingCode(planName, 2, 2) \notin DOMAIN ISO2_COUNTRIES

\* C22: when the plan name yields neither a region nor a country label and
\* the description contains any isolated 2-letter uppercase token of the
\* Country table, the resolver returns that country's label, wherever in
\* the description the token stands and whatever other isolated 2-letter
\* tokens precede it.
C22_AnyDescriptionTokenResolves ==
  (probe.op = "description" /\ NameYieldsNoLabel(probe.planName.s)) =>
    \A token \in CountryTokens(probe.description.s) :
      probe.out = Returned(ISO2_COUNTRIES[token])

(***************************************************************************)
(* Properties of the last-resort join                                      *)
(***************************************************************************)
\* id is a run of consecutive digits of the digit string of value
DigitsOfOne(id, value) ==
  /\ value.t = "string"
  /\ LET ds == SelectSeq(value.s, LAMBDA ch : ch \in Digit) IN
     \E a \in 0..Len(ds) :
       a + Len(id) <= Len(ds) /\ SubSeq(ds, a + 1, a + Len(id)) = id

\* C23: every identifier accepted by /balance or /balance-clean is made of
\* digits from one single candidate: the last-resort join never builds an
\* identifier out of digits of different candidates.
C23_DigitsOfOneCandidate ==
  \A r \in Reqs :
    (reqs[r].route \in BalanceRoutes /\ reqs[r].calls # <<>>) =>
      \E i \in 1..Len(Candidates(reqs[r].req)) :
        DigitsOfOne(reqs[r].calls[1].arg, Candidates(reqs[r].req)[i])

(***************************************************************************)
(* Properties of the ISO2 stage of the destination matcher                 *)
(***************************************************************************)
\* C24: when the normalized phrase equals the ISO2 code of some coverage
\* record and equals no record's country name nor a Europe synonym of one,
\* pickCoverageRecord returns a record whose ISO2 code equals the phrase,
\* for every coverage list: "ES" selects the record with iso2 "ES".
C24_Iso2PhraseSelectsIso2Record ==
  (/\ probe.op = "coverage"
   /\ Iso2Hits(probe.dest, probe.list) # {}
   /\ ExactHits(probe.dest, probe.list) = {}
   /\ SynonymHits(probe.dest, probe.list) = {}) =>
    probe.out \in Iso2Hits(probe.dest, probe.list)

(***************************************************************************)
(* Properties of plans without a numeric data volume                       *)
(***************************************************************************)
\* C25: for every raw plan list, plans whose data volume is missing or not
\* numeric included, every normalized plan that is not unlimited has a
\* finite gbsNum, and in the ordered list no plan that is not unlimited
\* comes after an unlimited plan.
C25_LimitedPlansFiniteAndFirst ==
  probe.op = "plans" =>
    LET plans == probe.out.plans IN
    /\ \A i \in 1..Len(plans) : ~plans[i].isUnlimited => isFinite(plans[i].gbsNum)
    /\ \A i, j \in 1..Len(plans) :
         (i < j /\ plans[i].isUnlimited) => plans[j].isUnlimited

(***************************************************************************)
(* Properties of /balance-clean in src/server.js                           *)
(***************************************************************************)
\* C26: in src/server.js a /balance-clean request with the API key set, a
\* non-empty iccid and an upstream success whose body parses is answered
\* 200 with the fields planName, description, country, bundleState,
\* validFrom, validUntil, initialGB and remainingGB, where country is the
\* label extractRegionOrIso2 resolves from the plan name.
C26_CleanAnswersWithCountry ==
  (/\ probe.op = "server.js"
   /\ probe.phase = "called"
   /\ cfg.key
   /\ pickIccid_serverjs(probe.req) # <<>>
   /\ ~probe.upstream.net
   /\ Ok(probe.upstream)
   /\ probe.upstream.text.valid) =>
    /\ probe.out.status = 200
    /\ probe.out.body.kind = "clean"
    /\ probe.out.body.country =
         extractRegionOrIso2(planName_serverjs(probe.upstream.text.json)).label

====
